---- MODULE Spec2Model ----
(***************************************************************************)
(* Model of the pdf-translator server (server/src/index.ts): the rate      *)
(* limiter, the session store and login/logout, requireAuth, and the       *)
(* /api/translate-stream relay with its in-process translation cache.      *)
(*                                                                         *)
(* Strings are TLA+ strings (ASCII).  A JSON value of a request body is a  *)
(* tagged record, so that a handler applied to a value of the wrong type   *)
(* behaves as the JavaScript does (it throws).                             *)
(***************************************************************************)
EXTENDS Integers, Sequences, FiniteSets, TLC

(***************************************************************************)
(* Strings and JSON values                                                 *)
(***************************************************************************)

Min(a, b) == IF a <= b THEN a ELSE b

Max(a, b) == IF a >= b THEN a ELSE b

\* The printable ASCII characters of codes 32..95 and 97..126 (code 96, the
\* backquote, cannot be written in a TLA+ string).
AsciiLow == " !\"#$%&'()*+,-./0123456789:;<=>?@ABCDEFGHIJKLMNOPQRSTUVWXYZ[\\]^_"

AsciiHigh == "abcdefghijklmnopqrstuvwxyz{|}~"

CharAt(s, i) == SubSeq(s, i, i)

\* Position (1-based) of the one-character string c in table, 0 if absent.
IndexOf(table, c) ==
  IF \E i \in 1..Len(table) : CharAt(table, i) = c
    THEN CHOOSE i \in 1..Len(table) : CharAt(table, i) = c
    ELSE 0

\* The code of a character: the white-space controls a TLA+ string can hold,
\* then the two tables; what is in neither is the backquote.
CharCode(c) ==
  IF c = "\t" THEN 9
  ELSE IF c = "\n" THEN 10
  ELSE IF c = "\f" THEN 12
  ELSE IF c = "\r" THEN 13
  ELSE IF IndexOf(AsciiLow, c) # 0 THEN 31 + IndexOf(AsciiLow, c)
  ELSE 96 + IndexOf(AsciiHigh, c)

\* Buffer.from(s): the UTF-8 bytes of an ASCII string.
BufferFrom(s) == [i \in 1..Len(s) |-> CharCode(CharAt(s, i))]

Base64Alphabet == "ABCDEFGHIJKLMNOPQRSTUVWXYZabcdefghijklmnopqrstuvwxyz0123456789+/"

Base64Char(n) == CharAt(Base64Alphabet, n + 1)

\* buf.toString('base64'): three bytes give four characters, '=' pads the tail.
RECURSIVE Base64(_)
Base64(bytes) ==
  IF Len(bytes) = 0 THEN ""
  ELSE IF Len(bytes) = 1 THEN
    Base64Char(bytes[1] \div 4) \o Base64Char((bytes[1] % 4) * 16) \o "=="
  ELSE IF Len(bytes) = 2 THEN
    Base64Char(bytes[1] \div 4)
      \o Base64Char((bytes[1] % 4) * 16 + bytes[2] \div 16)
      \o Base64Char((bytes[2] % 16) * 4) \o "="
  ELSE
    Base64Char(bytes[1] \div 4)
      \o Base64Char((bytes[1] % 4) * 16 + bytes[2] \div 16)
      \o Base64Char((bytes[2] % 16) * 4 + bytes[3] \div 64)
      \o Base64Char(bytes[3] % 64)
      \o Base64(SubSeq(bytes, 4, Len(bytes)))

\* s.slice(from, to) for 0 <= from <= to.
Slice(s, from, to) == SubSeq(s, from + 1, Min(to, Len(s)))

LowerCaseLetters == "abcdefghijklmnopqrstuvwxyz"

UpperCaseLetters == "ABCDEFGHIJKLMNOPQRSTUVWXYZ"

UpperChar(c) ==
  IF IndexOf(LowerCaseLetters, c) = 0 THEN c
  ELSE CharAt(UpperCaseLetters, IndexOf(LowerCaseLetters, c))

\* s.toUpperCase()
RECURSIVE ToUpperCase(_)
ToUpperCase(s) ==
  IF Len(s) = 0 THEN ""
  ELSE UpperChar(CharAt(s, 1)) \o ToUpperCase(SubSeq(s, 2, Len(s)))

\* The position of the first blank of s at or after i, Len(s) + 1 without one.
NextBlank(s, i) ==
  IF \E j \in i..Len(s) : CharAt(s, j) = " "
    THEN CHOOSE j \in i..Len(s) :
           CharAt(s, j) = " " /\ \A k \in i..(j - 1) : CharAt(s, k) # " "
    ELSE Len(s) + 1

\* The position of the last blank of s in lo..hi, lo - 1 without one.
LastBlank(s, lo, hi) ==
  IF \E j \in lo..hi : CharAt(s, j) = " "
    THEN CHOOSE j \in lo..hi :
           CharAt(s, j) = " " /\ \A k \in (j + 1)..hi : CharAt(s, k) # " "
    ELSE lo - 1

\* s.split(' '): the pieces between single spaces (empty pieces kept).  The
\* string and the range are bound as values; piece[<<lo, hi>>] is the pieces
\* of str from position lo to position hi, cut at a blank near the middle of
\* the range and put together from the pieces of the two sides.
SplitSpaces(s) ==
  LET from[str \in {s}] ==
        LET piece[p \in (1..(Len(str) + 1)) \X (0..Len(str))] ==
              LET lo == p[1]
                  hi == p[2]
                  mid == (lo + hi) \div 2
                  cut == IF NextBlank(str, mid) <= hi THEN NextBlank(str, mid)
                         ELSE LastBlank(str, lo, mid - 1)
              IN  IF hi < lo \/ cut < lo THEN <<SubSeq(str, lo, hi)>>
                  ELSE piece[<<lo, cut - 1>>] \o piece[<<cut + 1, hi>>]
        IN  piece[<<1, Len(str)>>]
  IN  from[s]

\* JSON values of a request body.
Str(s) == [type |-> "string", str |-> s]

Num(n) == [type |-> "number", num |-> n]

Undefined == [type |-> "undefined"]

IsString(v) == v.type = "string"

\* JavaScript truthiness (!!v).
Truthy(v) ==
  CASE v.type = "string" -> v.str # ""
    [] v.type = "number" -> v.num # 0
    [] OTHER -> FALSE

Digits == "0123456789"

\* String(n) for a natural number n.
RECURSIVE NatToString(_)
NatToString(n) ==
  IF n < 10 THEN CharAt(Digits, n + 1)
  ELSE NatToString(n \div 10) \o CharAt(Digits, (n % 10) + 1)

\* `${v}`: the string a template literal makes of a JSON value.
TemplateString(v) ==
  CASE v.type = "string" -> v.str
    [] v.type = "number" -> NatToString(v.num)
    [] OTHER -> "undefined"

(***************************************************************************)
(* Bounds of the model and the inputs requests are drawn from              *)
(***************************************************************************)

\* Request slots: the requests that can be in flight at the same time.
NumReqs == 2

Reqs == 1..NumReqs

\* Requests accepted over one run.
MaxArrivals == 2

\* Chunks one provider stream delivers before it must end or fail.
MaxChunks == 2

\* The content fragments (delta.content) of a provider answer, in order; the
\* last one repeats when a stream delivers more.
ProviderFragments == <<"Hal", "lo", " Welt", "!">>

(***************************************************************************)
(* Program constants (server/src/index.ts)                                 *)
(***************************************************************************)

SESSION_TTL_SECONDS == 86400

MAX_ACTIVE_SESSIONS == 2

\* slice(0, 32) of the base64 text in getCacheKey
CacheHashLen == 32

\* pageText.slice(0, 100) in the demo text
DemoQuoteLen == 100

\* rateLimitOrNext defaults (opts.limit ?? 30, opts.window ?? '1 m')
DefaultLimit == 30

DefaultWindow == "1 m"

\* A route registered without rateLimitOrNext (/api/auth/logout, /api/auth/me).
NoLimiter == [none |-> TRUE]

\* The limiter options of the two rate-limited routes.
RouteLimiter(route) ==
  IF route = "login" THEN [name |-> "auth-login", limit |-> 10, window |-> "10 m"]
  ELSE IF route = "translate" THEN [name |-> "translate", limit |-> 30, window |-> "1 m"]
  ELSE NoLimiter

TranslationFailed == "Translation failed. Please try again."

RateLimitExceeded == "Rate limit exceeded"

VARIABLES
  env,              \* process configuration: [redis, APP_SECRET]
  running,          \* the Node process of the server is alive
  now,              \* Date.now(), in ms since the start of the run
  memRate,          \* Map key -> {resetAt, count} of the in-memory limiter
  rateLog,          \* history: key -> start of its window and requests seen in it
  sessionKeys,      \* Redis keys session:<token> -> record (with expiry time)
  sessionsSet,      \* Redis set 'sessions'
  tokenSeq,         \* random tokens drawn so far
  issued,           \* history: the tokens handed to clients, each with its login
  translationCache, \* Map cacheKey -> text
  cacheSource,      \* history: cacheKey -> the request that wrote the entry
  req,              \* the requests in flight, one record per slot
  arrivals,         \* requests accepted so far
  client            \* the browser: TranslationService, its calls, the panel

vars == <<env, running, now, memRate, rateLog, sessionKeys, sessionsSet, tokenSeq, issued, translationCache,
          cacheSource, req, arrivals, client>>

\* No browser is part of the run.
NoClient == [none |-> TRUE]

\* Map.has / Map.get / Map.set on a function with a finite domain.
Has(map, key) == key \in DOMAIN map

MapSet(map, key, value) ==
  [k \in DOMAIN map \cup {key} |-> IF k = key THEN value ELSE map[k]]

EmptyMap == [k \in {} |-> 0]

\* What is known of a token handed out by a login: the user and the sealed
\* key of that login, its time, and whether a logout for it has completed.
Issue(username, apiKeyEnc, time) ==
  [username |-> username, apiKeyEnc |-> apiKeyEnc, at |-> time, loggedOut |-> FALSE]

LogoutCompleted(tokens, token) ==
  IF token \in DOMAIN tokens THEN [tokens EXCEPT ![token].loggedOut = TRUE] ELSE tokens

(***************************************************************************)
(* Credentials, tokens and the session store                               *)
(***************************************************************************)

\* deriveKey: the SHA-256 digest of the secret.
deriveKey(secret) == [sha256 |-> secret]

\* cipher.update(plain) + cipher.final(): the counter-mode ciphertext, as long
\* as the plaintext and readable only with the same key and iv.
GcmCiphertext(key, iv, plain) == [key |-> key, iv |-> iv, plain |-> plain]

\* cipher.getAuthTag(): the 16-byte tag over the iv and the ciphertext.
GcmAuthTag(key, iv, ciphertext) ==
  [key |-> key, iv |-> iv, ciphertext |-> ciphertext, len |-> 16]

\* The first n bytes of a tag.
TagPrefix(tag, n) == [tag EXCEPT !.len = Min(@, n)]

\* The tag lengths decipher.setAuthTag takes for aes-256-gcm when
\* createDecipheriv was given no authTagLength; it throws on any other.
GcmTagLengths == {4, 8, 12, 13, 14, 15, 16}

\* encryptApiKey: AES-256-GCM under the key derived from APP_SECRET, with a
\* random iv; the blob is `iv.ciphertext.tag`, each part in base64.
encryptApiKey(plain, secret, iv) ==
  IF secret = "" THEN [ok |-> FALSE]
  ELSE LET key == deriveKey(secret)
           ciphertext == GcmCiphertext(key, iv, plain)
       IN  [ok |-> TRUE,
            val |-> [iv |-> iv, ct |-> ciphertext,
                     tag |-> GcmAuthTag(key, iv, ciphertext)]]

\* decryptApiKey: throws without APP_SECRET, on a blob with an empty part (the
\* ciphertext of an empty plaintext is one), when setAuthTag refuses the length
\* of the tag, and when decipher.final() finds that the tag does not verify.
\* The tag is verified over its own length: the first 4, 8 or 12..15 bytes of
\* the right tag verify as the whole tag does.
decryptApiKey(enc, secret) ==
  IF secret = "" THEN [ok |-> FALSE]
  ELSE IF enc.iv = "" \/ enc.ct.plain = "" \/ enc.tag.len = 0 THEN [ok |-> FALSE]
  ELSE IF enc.tag.len \notin GcmTagLengths THEN [ok |-> FALSE]
  ELSE IF enc.tag # TagPrefix(GcmAuthTag(deriveKey(secret), enc.iv, enc.ct), enc.tag.len)
    THEN [ok |-> FALSE]
  ELSE [ok |-> TRUE, val |-> enc.ct.plain]

\* s.startsWith('sk-')
StartsWithSk(s) == Len(s) >= 3 /\ SubSeq(s, 1, 3) = "sk-"

\* crypto.randomBytes(32).toString('hex'): the n-th token drawn.
OpaqueToken(n) == [kind |-> "opaque", id |-> n]

\* A signature that does not cover exp.
signStatelessWithoutExp(payload, secret) ==
  [key |-> secret, payload |-> [payload EXCEPT !.exp = 0]]

\* throw new Error('Missing APP_SECRET. ...')
MissingAppSecret == [threw |-> "Missing APP_SECRET"]

\* signStateless: the HMAC of the payload under the key derived from secret;
\* it throws without APP_SECRET.
signStateless(payload, secret) ==
  IF secret = "" THEN MissingAppSecret
  ELSE [key |-> secret, payload |-> payload]

\* createStatelessToken: payload {u, k, exp} and its signature; the throw of
\* signStateless passes through.
createStatelessToken(username, apiKeyEnc, ttlSeconds, secret, time) ==
  LET payload == [u |-> username, k |-> apiKeyEnc,
                  exp |-> (time \div 1000) + ttlSeconds]
      sig == signStateless(payload, secret)
  IN  IF sig = MissingAppSecret THEN MissingAppSecret
      ELSE [kind |-> "signed", payload |-> payload, sig |-> sig]

\* A parser that compares exp, in seconds, with the clock in milliseconds.
parseStatelessTokenMillis(token, secret, time) ==
  IF token.kind # "signed" THEN [ok |-> FALSE]
  ELSE IF secret = "" THEN [ok |-> FALSE]
  ELSE IF signStateless(token.payload, secret) # token.sig THEN [ok |-> FALSE]
  ELSE IF token.payload.exp <= time THEN [ok |-> FALSE]
  ELSE [ok |-> TRUE,
        val |-> [username |-> token.payload.u, apiKeyEnc |-> token.payload.k]]

\* parseStatelessToken: null unless the signature verifies and exp is ahead.
parseStatelessToken(token, secret, time) ==
  IF token.kind # "signed" THEN [ok |-> FALSE]
  ELSE IF signStateless(token.payload, secret) = MissingAppSecret THEN [ok |-> FALSE]
  ELSE IF signStateless(token.payload, secret) # token.sig THEN [ok |-> FALSE]
  ELSE IF token.payload.exp <= time \div 1000 THEN [ok |-> FALSE]
  ELSE [ok |-> TRUE,
        val |-> [username |-> token.payload.u, apiKeyEnc |-> token.payload.k]]

\* A Redis whose keys never run out.
RedisExistsForever(keys, token, time) == token \in DOMAIN keys

\* redis.exists / redis.get of session:<token>: a key lives until its TTL ends.
RedisExists(keys, token, time) ==
  token \in DOMAIN keys /\ keys[token].expiresAt > time

\* RedisStorage.getSession.  redis.get answers with the text that redis.set
\* stored, or, when the client deserializes its answers, with the object that
\* text stands for: JSON.parse(raw) of an object throws, and the catch gives
\* null.
RedisGetSession(keys, token, time, deserialized) ==
  IF ~RedisExists(keys, token, time) THEN [ok |-> FALSE]
  ELSE IF deserialized THEN [ok |-> FALSE]
  ELSE [ok |-> TRUE,
        val |-> [username |-> keys[token].username,
                 apiKeyEnc |-> keys[token].apiKeyEnc]]

\* storage.getSession: RedisStorage when Upstash is configured, else
\* StatelessStorage.
getSession(token) ==
  IF env.redis THEN RedisGetSession(sessionKeys, token, now, env.automaticDeserialization)
  ELSE parseStatelessToken(token, env.APP_SECRET, now)

(***************************************************************************)
(* Requests                                                                *)
(***************************************************************************)

NoHeader == [type |-> "none"]

\* The second piece of a header that has none or an empty one ("Bearer",
\* "Bearer ").
NoToken == [kind |-> "none"]

Bearer(token) == [type |-> "Bearer", token |-> token]

\* getBearerToken: the token of an "Authorization: Bearer <token>" header, null
\* without a header, under another scheme or without a token.  (The tokens of
\* the model are hex or base64url text, which trim() leaves as it is.)
getBearerToken(header) ==
  IF header = NoHeader THEN [ok |-> FALSE]
  ELSE IF ToUpperCase(header.type) # "BEARER" \/ header.token = NoToken THEN [ok |-> FALSE]
  ELSE [ok |-> TRUE, val |-> header.token]

NoAuth == [username |-> ""]

NoJson == [none |-> TRUE]

IdleReq ==
  [pc |-> "idle", route |-> "", ip |-> "", authorization |-> NoHeader,
   body |-> NoJson, auth |-> NoAuth,
   \* the response
   status |-> 0, headers |-> EmptyMap, json |-> NoJson, events |-> <<>>,
   ended |-> FALSE,
   \* locals of the login handler
   cleanUsername |-> "", apiKeyEnc |-> NoJson, tokens |-> {}, pruning |-> NoJson,
   active |-> 0, token |-> NoJson, mail |-> "none",
   \* locals of the translate handler
   cacheKey |-> "", demoTranslation |-> "", demoChunks |-> <<>>, i |-> 0,
   fullTranslation |-> "",
   \* the caller's side
   connected |-> TRUE,
   \* history of what the request did
   seq |-> 0, at |-> 0, rec |-> NoJson, limiterThrew |-> FALSE, nextCalls |-> 0, limited |-> FALSE,
   lookups |-> 0, providerCalls |-> 0, failed |-> FALSE,
   chunks |-> 0, fragments |-> <<>>, roundsAfterClose |-> 0, cacheWrites |-> 0,
   cacheHit |-> FALSE]

\* res.setHeader
SetHeader(q, name, value) == [q EXCEPT !.headers = MapSet(@, name, value)]

\* res.status(code).json(body): the response is complete.
RespondJson(q, code, body) ==
  [q EXCEPT !.status = code, !.json = body, !.ended = TRUE, !.pc = "done"]

\* res.write(`data: ${JSON.stringify(event)}\n\n`)
WriteEvent(q, event) == [q EXCEPT !.events = Append(@, event)]

ContentEvent(content, isDone) == [content |-> content, isDone |-> isDone]

ErrorEvent(message) == [error |-> message, isDone |-> TRUE]

\* res.end()
EndResponse(q) == [q EXCEPT !.ended = TRUE, !.pc = "done"]

\* The handler an allowed request goes to after the limiter (next()).
AfterLimiter(q) ==
  [q EXCEPT !.nextCalls = @ + 1,
            !.pc = IF q.route = "login" THEN "login" ELSE "auth"]

\* A request arrives and takes the first free slot: its first middleware is
\* the limiter of its route, or requireAuth on a route without one.
Arrive(r, route, ip, authorization, body) ==
  /\ running
  /\ req[r].pc = "idle"
  /\ \A s \in DOMAIN req : s < r => req[s].pc # "idle"
  /\ req' = [req EXCEPT ![r] =
       [IdleReq EXCEPT !.pc = IF RouteLimiter(route) = NoLimiter THEN "auth" ELSE "limiter",
                       !.route = route, !.ip = ip,
                       !.authorization = authorization, !.body = body]]
  /\ UNCHANGED <<client, env, running, now, memRate, rateLog, sessionKeys, sessionsSet, tokenSeq, issued, translationCache,
                 cacheSource>>

\* One more request has been accepted by the server.
Counted == arrivals' = arrivals + 1

(***************************************************************************)
(* Rate limiter (rateLimitOrNext)                                          *)
(***************************************************************************)

IsDigit(c) == IndexOf(Digits, c) # 0

RECURSIVE ParseNat(_, _)
ParseNat(s, acc) ==
  IF Len(s) = 0 THEN acc
  ELSE ParseNat(SubSeq(s, 2, Len(s)), acc * 10 + (IndexOf(Digits, CharAt(s, 1)) - 1))

\* White space (\s of a regular expression, what trim() removes): the blank
\* and the controls tab, line feed, form feed and carriage return.
IsWhiteSpace(c) == c \in {" ", "\t", "\n", "\f", "\r"}

RECURSIVE TrimLeft(_)
TrimLeft(s) ==
  IF Len(s) > 0 /\ IsWhiteSpace(CharAt(s, 1)) THEN TrimLeft(SubSeq(s, 2, Len(s))) ELSE s

RECURSIVE TrimRight(_)
TrimRight(s) ==
  IF Len(s) > 0 /\ IsWhiteSpace(CharAt(s, Len(s)))
    THEN TrimRight(SubSeq(s, 1, Len(s) - 1)) ELSE s

\* s.trim()
Trim(s) == TrimRight(TrimLeft(s))

RECURSIVE LeadingDigits(_)
LeadingDigits(s) ==
  IF Len(s) > 0 /\ IsDigit(CharAt(s, 1)) THEN 1 + LeadingDigits(SubSeq(s, 2, Len(s))) ELSE 0

\* parseWindowToMs: /^(\d+)\s*(s|m|h|d)$/i on the trimmed text, else 60 s.
parseWindowToMs(window) ==
  LET w == Trim(window)
      d == LeadingDigits(w)
      n == ParseNat(SubSeq(w, 1, d), 0)
      unit == ToUpperCase(TrimLeft(SubSeq(w, d + 1, Len(w))))
  IN  IF d = 0 THEN 60000
      ELSE IF unit = "S" THEN n * 1000
      ELSE IF unit = "M" THEN n * 60000
      ELSE IF unit = "H" THEN n * 3600000
      ELSE IF unit = "D" THEN n * 86400000
      ELSE 60000

RateLimitHeaders(remaining, reset) ==
  MapSet(MapSet(EmptyMap, "X-RateLimit-Remaining", remaining), "X-RateLimit-Reset", reset)

\* The window with its comparison off by one: request L+1 passes.
memRateLimitOffByOne(map, key, limit, windowMs, time) ==
  IF ~Has(map, key) \/ map[key].resetAt <= time THEN
    [map |-> MapSet(map, key, [resetAt |-> time + windowMs, count |-> 1]),
     allowed |-> TRUE, headers |-> EmptyMap]
  ELSE IF map[key].count > limit THEN
    [map |-> map, allowed |-> FALSE,
     headers |-> RateLimitHeaders("0", NatToString(map[key].resetAt \div 1000))]
  ELSE
    [map |-> MapSet(map, key, [resetAt |-> map[key].resetAt, count |-> map[key].count + 1]),
     allowed |-> TRUE,
     headers |-> RateLimitHeaders(NatToString(Max(0, limit - (map[key].count + 1))),
                                  NatToString(map[key].resetAt \div 1000))]

\* A limiter that counts the denied requests too.
memRateLimitCountsDenied(map, key, limit, windowMs, time) ==
  IF ~Has(map, key) \/ map[key].resetAt <= time THEN
    [map |-> MapSet(map, key, [resetAt |-> time + windowMs, count |-> 1]),
     allowed |-> TRUE, headers |-> EmptyMap]
  ELSE
    [map |-> MapSet(map, key, [resetAt |-> map[key].resetAt, count |-> map[key].count + 1]),
     allowed |-> map[key].count + 1 <= limit,
     headers |-> RateLimitHeaders(NatToString(Max(0, limit - (map[key].count + 1))),
                                  NatToString(map[key].resetAt \div 1000))]

\* A limiter whose write is lost: the request is passed on and the counter
\* keeps the value read before.
memRateLimitLostUpdate(map, key, limit, windowMs, time) ==
  IF ~Has(map, key) \/ map[key].resetAt <= time THEN
    [map |-> MapSet(map, key, [resetAt |-> time + windowMs, count |-> 1]),
     allowed |-> TRUE, headers |-> EmptyMap]
  ELSE IF map[key].count >= limit THEN
    [map |-> map, allowed |-> FALSE,
     headers |-> RateLimitHeaders("0", NatToString(map[key].resetAt \div 1000))]
  ELSE
    [map |-> map, allowed |-> TRUE,
     headers |-> RateLimitHeaders(NatToString(Max(0, limit - (map[key].count + 1))),
                                  NatToString(map[key].resetAt \div 1000))]

\* The in-memory fallback on memRate: the new map, the verdict and the
\* headers the branch sets.
memRateLimit(map, key, limit, windowMs, time) ==
  IF ~Has(map, key) \/ map[key].resetAt <= time THEN
    [map |-> MapSet(map, key, [resetAt |-> time + windowMs, count |-> 1]),
     allowed |-> TRUE, headers |-> EmptyMap]
  ELSE IF map[key].count >= limit THEN
    [map |-> map, allowed |-> FALSE,
     headers |-> RateLimitHeaders("0", NatToString(map[key].resetAt \div 1000))]
  ELSE
    [map |-> MapSet(map, key, [resetAt |-> map[key].resetAt, count |-> map[key].count + 1]),
     allowed |-> TRUE,
     headers |-> RateLimitHeaders(NatToString(Max(0, limit - (map[key].count + 1))),
                                  NatToString(map[key].resetAt \div 1000))]

\* The reference window of a key: it starts with the first request at or after
\* the end of the window before, and counts the requests made in it (up to
\* one more than the limit) and those of them that were passed on.
WindowLog(log, key, limit, windowMs, time, allowed) ==
  LET pass == IF allowed THEN 1 ELSE 0
  IN  IF ~Has(log, key) \/ time >= log[key].start + windowMs
        THEN MapSet(log, key, [start |-> time, n |-> 1, passed |-> pass])
        ELSE MapSet(log, key, [start |-> log[key].start,
                               n |-> Min(log[key].n + 1, limit + 1),
                               passed |-> Min(log[key].passed + pass, limit + 1)])

WithHeaders(q, headers) ==
  [q EXCEPT !.headers = [k \in DOMAIN @ \cup DOMAIN headers |->
                           IF k \in DOMAIN headers THEN headers[k] ELSE @[k]]]

\* return next()
LimiterAllow(q, headers) == AfterLimiter(WithHeaders(q, headers))

\* A denial without its return: the 429 is sent and next() is called as well.
LimiterDenyAndGoOn(q, headers) ==
  AfterLimiter([WithHeaders(q, headers) EXCEPT !.limited = TRUE, !.status = 429,
                  !.json = [error |-> RateLimitExceeded], !.ended = TRUE])

\* return res.status(429).json({ error: 'Rate limit exceeded' })
LimiterDeny(q, headers) ==
  RespondJson([WithHeaders(q, headers) EXCEPT !.limited = TRUE], 429,
              [error |-> RateLimitExceeded])

\* A limiter that fails closed: its error becomes the answer.
LimiterFailClosed(q) ==
  RespondJson([q EXCEPT !.limiterThrew = TRUE], 500, [error |-> "Rate limiter failed"])

\* catch { return next(); }
LimiterFailOpen(q) == AfterLimiter([q EXCEPT !.limiterThrew = TRUE])

\* A key that leaves the client out: one counter for a whole route.
RateKeyByRoute(name, ip) == name \o ":"

\* `${opts.name}:${ip}`
RateKey(name, ip) == name \o ":" \o ip

\* The middleware without Upstash: one synchronous step on memRate.
RateLimitMemory(r) ==
  /\ req[r].pc = "limiter"
  /\ ~env.redis
  /\ LET q == req[r]
         opts == RouteLimiter(q.route)
         res == memRateLimit(memRate, RateKey(opts.name, q.ip), opts.limit,
                             parseWindowToMs(opts.window), now)
         log == WindowLog(rateLog, RateKey(opts.name, q.ip), opts.limit,
                          parseWindowToMs(opts.window), now, res.allowed)
         seen == [q EXCEPT !.seq = log[RateKey(opts.name, q.ip)].n, !.at = now,
                           !.rec = res.map[RateKey(opts.name, q.ip)]]
     IN  /\ memRate' = res.map
         /\ rateLog' = log
         /\ req' = [req EXCEPT ![r] = IF res.allowed THEN LimiterAllow(seen, res.headers)
                                                      ELSE LimiterDeny(seen, res.headers)]
  /\ UNCHANGED <<client, env, running, now, sessionKeys, sessionsSet, tokenSeq, issued, translationCache, cacheSource,
                 arrivals>>

\* What `await limiter.limit(key)` of @upstash/ratelimit can come back with:
\* a verdict, or an exception (the backend cannot be reached).
LimitOutcomes ==
  { [threw |-> TRUE],
    [threw |-> FALSE, success |-> TRUE, remaining |-> 29, reset |-> 60000],
    [threw |-> FALSE, success |-> FALSE, remaining |-> 0, reset |-> 60000] }

\* The middleware with Upstash: the verdict of the distributed limiter.
RateLimitDistributed(r, outcome) ==
  /\ req[r].pc = "limiter"
  /\ env.redis
  /\ LET q == req[r]
         headers == RateLimitHeaders(NatToString(outcome.remaining),
                                     NatToString(outcome.reset))
     IN  req' = [req EXCEPT ![r] =
           IF outcome.threw THEN LimiterFailOpen(q)
           ELSE IF outcome.success THEN LimiterAllow(q, headers)
           ELSE LimiterDeny(q, headers)]
  /\ UNCHANGED <<client, env, running, now, memRate, rateLog, sessionKeys, sessionsSet, tokenSeq, issued, translationCache,
                 cacheSource, arrivals>>

(***************************************************************************)
(* requireAuth                                                             *)
(***************************************************************************)

\* A requireAuth that goes on to the handler when the token has no session.
RequireAuthLenient(q, session) ==
  IF ~getBearerToken(q.authorization).ok THEN
    RespondJson(q, 401, [error |-> "Missing auth token"])
  ELSE
    [q EXCEPT !.lookups = @ + 1,
              !.auth = [username |-> IF session.ok THEN session.val.username ELSE "",
                        apiKeyEnc |-> IF session.ok THEN session.val.apiKeyEnc ELSE NoJson,
                        token |-> getBearerToken(q.authorization).val],
              !.pc = q.route]

\* requireAuth up to next(): 401 without a bearer token or a session.
RequireAuthResult(q, session) ==
  IF ~getBearerToken(q.authorization).ok THEN
    RespondJson(q, 401, [error |-> "Missing auth token"])
  ELSE IF ~session.ok THEN
    RespondJson([q EXCEPT !.lookups = @ + 1], 401,
                [error |-> "Invalid or expired session"])
  ELSE
    [q EXCEPT !.lookups = @ + 1,
              !.auth = [username |-> session.val.username,
                        apiKeyEnc |-> session.val.apiKeyEnc,
                        token |-> getBearerToken(q.authorization).val],
              !.pc = q.route]

RequireAuth(r) ==
  /\ req[r].pc = "auth"
  /\ LET q == req[r]
         token == getBearerToken(q.authorization)
         session == IF token.ok THEN getSession(token.val) ELSE [ok |-> FALSE]
     IN  req' = [req EXCEPT ![r] = RequireAuthResult(q, session)]
  /\ UNCHANGED <<client, env, running, now, memRate, rateLog, sessionKeys, sessionsSet, tokenSeq, issued, translationCache,
                 cacheSource, arrivals>>

(***************************************************************************)
(* Translation cache and POST /api/translate-stream                        *)
(***************************************************************************)

\* getCacheKey: the first 32 characters of the base64 text of pageText, '_'
\* and the target language.
getCacheKey(pageText, targetLanguage) ==
  Slice(Base64(BufferFrom(pageText.str)), 0, CacheHashLen)
    \o "_" \o TemplateString(targetLanguage)

\* A key without the user: one entry for all who ask for the same page.
UserCacheKeyShared(username, pageText, targetLanguage) ==
  getCacheKey(pageText, targetLanguage)

\* const cacheKey = `${username}:${getCacheKey(pageText, targetLanguage)}`
UserCacheKey(username, pageText, targetLanguage) ==
  username \o ":" \o getCacheKey(pageText, targetLanguage)

\* The fixed text of the demo translation around its two placeholders, line
\* by line as the template literal has it, trailing blanks included.  A
\* character outside ASCII stands as its escape \uXXXX (six characters of
\* the model for one UTF-16 unit of the source); none of them is a blank.
DemoHead ==
  "\n"
    \o "**DEMO P\\u2248\\u00f2EKLAD** ("

DemoMiddle ==
  ")\n"
    \o "\n"
    \o "\\uf8ff\\u00fc\\u00ec\\u00d1 **Simulovan\\u221a\\u03a9 p\\u2248\\u00f4eklad str\\u221a\\u00b0nky**\n"
    \o "\n"
    \o "Toto je uk\\u221a\\u00b0zkov\\u221a\\u03a9 p\\u2248\\u00f4eklad textu ze str\\u221a\\u00b0nky PDF dokumentu. \n"
    \o "\n"
    \o "**P\\u2248\\u00d8vodn\\u221a\\u2260 text byl:**\n"
    \o "\""

DemoTail ==
  "...\"\n"
    \o "\n"
    \o "**V produk\\u0192\\u00e7n\\u221a\\u2260m re\\u2248\\u00e6imu by zde byl skute\\u0192\\u00e7n\\u221a\\u03a9 p\\u2248\\u00f4eklad pomoc\\u221a\\u2260 OpenAI GPT-4.**\n"
    \o "\n"
    \o "\\uf8ff\\u00fc\\u00ee\\u00df **Pro aktivaci skute\\u0192\\u00e7n\\u221a\\u03a9ch p\\u2248\\u00f4eklad\\u2248\\u00d8:**\n"
    \o "1. Z\\u221a\\u2260skejte OpenAI API kl\\u221a\\u2260\\u0192\\u00e7 na: https://platform.openai.com/api-keys\n"
    \o "2. Upravte soubor server/.env \n"
    \o "3. Nastavte: OPENAI_API_KEY=sk-v\\u221a\\u00b0\\u2248\\u00b0-skute\\u0192\\u00e7n\\u221a\\u03a9-kl\\u221a\\u2260\\u0192\\u00e7\n"
    \o "4. Restartujte server\n"
    \o "\n"
    \o "**Funkce, kter\\u221a\\u00a9 m\\u2248\\u00d8\\u2248\\u00e6ete testovat i v DEMO m\\u221a\\u2265du:**\n"
    \o "\\u201a\\u00fa\\u00d6 PDF na\\u0192\\u00e7\\u221a\\u2260t\\u221a\\u00b0n\\u221a\\u2260 a renderov\\u221a\\u00b0n\\u221a\\u2260  \n"
    \o "\\u201a\\u00fa\\u00d6 Extrakce textu ze str\\u221a\\u00b0nek\n"
    \o "\\u201a\\u00fa\\u00d6 SSE streaming komunikace\n"
    \o "\\u201a\\u00fa\\u00d6 Cache mechanismus\n"
    \o "\\u201a\\u00fa\\u00d6 Navigace mezi str\\u221a\\u00b0nkami\n"
    \o "\\u201a\\u00fa\\u00d6 Zm\\u0192\\u00f5na jazyk\\u2248\\u00d8\n"
    \o "\n"
    \o "*Aplikace je pln\\u0192\\u00f5 p\\u2248\\u00f4ipraven\\u221a\\u00b0 - sta\\u0192\\u00e7\\u221a\\u2260 pouze doplnit OpenAI API kl\\u221a\\u2260\\u0192\\u00e7!*\n"
    \o "    "

\* The demo text: a function of the target language and the page text.
demoTranslation(pageText, targetLanguage) ==
  DemoHead \o ToUpperCase(targetLanguage.str) \o DemoMiddle
    \o Slice(pageText.str, 0, DemoQuoteLen) \o DemoTail

\* hasValidUserApiKey: the session's key decrypts and starts with 'sk-'.
hasValidUserApiKey(apiKeyEnc, secret) ==
  /\ decryptApiKey(apiKeyEnc, secret).ok
  /\ StartsWithSk(decryptApiKey(apiKeyEnc, secret).val)

\* The provider calls, made without force, that have filled the entry of a
\* key since the cache was last cleared, q's own call included.
PaidCalls(q) ==
  (IF Has(cacheSource, q.cacheKey) THEN cacheSource[q.cacheKey].paid ELSE 0)
    + (IF q.providerCalls > 0 /\ ~q.body.force THEN 1 ELSE 0)

\* A cache write from an accumulator shared by the open streams of a key: the
\* entry is the writer's text followed by the text of the others.
RECURSIVE OthersText(_, _)
OthersText(q, rs) ==
  IF rs = {} THEN ""
  ELSE LET r == CHOOSE x \in rs : \A y \in rs : x <= y
       IN  (IF req[r] # q /\ req[r].pc = "streaming" /\ req[r].cacheKey = q.cacheKey
              THEN req[r].fullTranslation ELSE "")
           \o OthersText(q, rs \ {r})

CacheSetShared(q, text) ==
  /\ translationCache' = MapSet(translationCache, q.cacheKey,
                                text \o OthersText(q, DOMAIN req))
  /\ cacheSource' = MapSet(cacheSource, q.cacheKey,
                          [username |-> q.auth.username,
                           pageText |-> q.body.pageText,
                           targetLanguage |-> q.body.targetLanguage,
                           paid |-> PaidCalls(q)])

\* translationCache.set(key, text) by request q.
CacheSet(q, text) ==
  /\ translationCache' = MapSet(translationCache, q.cacheKey, text)
  /\ cacheSource' = MapSet(cacheSource, q.cacheKey,
                          [username |-> q.auth.username,
                           pageText |-> q.body.pageText,
                           targetLanguage |-> q.body.targetLanguage,
                           paid |-> PaidCalls(q)])

\* res.writeHead(200, {'Content-Type': 'text/event-stream', ...})
WriteHead(q) == [q EXCEPT !.status = 200]

\* A cache hit replayed like a stream: the text as a chunk, then the end.
CacheHitReplay(q, key, text) ==
  EndResponse(WriteEvent(WriteEvent([WriteHead(q) EXCEPT !.cacheKey = key, !.cacheHit = TRUE],
                                    ContentEvent(text, FALSE)),
                         ContentEvent("", TRUE)))

\* The cache-hit answer: one terminal event with the cached text.
CacheHitResponse(q, key, text) ==
  EndResponse(WriteEvent([WriteHead(q) EXCEPT !.cacheKey = key, !.cacheHit = TRUE],
                         ContentEvent(text, TRUE)))

\* May the request be answered from the cache?
UseCache(force, key) == ~force /\ Has(translationCache, key)

\* app.use(express.json(...)) on a request that carries no body: the parser of
\* Express 4 leaves {} in req.body (force takes its default when the handler
\* destructures it), the parser of Express 5 leaves req.body undefined.
BodylessBody(express) ==
  IF express = 4
    THEN [pageText |-> Undefined, targetLanguage |-> Undefined, force |-> FALSE]
    ELSE Undefined

\* The async handler or middleware of q has thrown: its promise rejects.
Throws(q) == [q EXCEPT !.pc = "rejected"]

\* Express 5 passes the error of a rejected handler on, and with no error
\* handler registered its final handler answers 500, or destroys the socket
\* when the head has been sent.
FinalHandler(q) ==
  IF q.status = 0 THEN [q EXCEPT !.status = 500, !.ended = TRUE, !.pc = "done"]
  ELSE [q EXCEPT !.connected = FALSE, !.pc = "crashed"]

\* An unhandled rejection ends the Node process (exit code 1; no handler for
\* 'unhandledRejection' is registered): every request in flight loses its
\* connection unanswered, and the Maps of the process, translationCache and
\* memRate, are gone with it.
ProcessExits(reqs) ==
  /\ req' = [s \in DOMAIN reqs |->
               IF reqs[s].pc \in {"idle", "done", "crashed"} THEN reqs[s]
               ELSE [reqs[s] EXCEPT !.connected = FALSE, !.pc = "crashed"]]
  /\ running' = FALSE
  /\ memRate' = EmptyMap
  /\ rateLog' = EmptyMap
  /\ translationCache' = EmptyMap
  /\ cacheSource' = EmptyMap

\* The handler or middleware of request r has thrown when the request had
\* come to q.  Express 4 does not look at the promise, so that the rejection
\* is unhandled; Express 5 hands the error to its final handler.
HandlerRejects(r, q) ==
  IF env.express = 4 THEN ProcessExits([req EXCEPT ![r] = q])
  ELSE /\ req' = [req EXCEPT ![r] = FinalHandler(q)]
       /\ UNCHANGED <<running, memRate, rateLog, translationCache, cacheSource>>

\* The handler up to its first await.
TranslateStart(r) ==
  /\ req[r].pc = "translate"
  /\ LET q == req[r]
         pageText == q.body.pageText
         targetLanguage == q.body.targetLanguage
         key == UserCacheKey(q.auth.username, pageText, targetLanguage)
         opened == [WriteHead(q) EXCEPT !.cacheKey = key]
         demo == demoTranslation(pageText, targetLanguage)
         \* const chunks = demoTranslation.split(' ')
         chunks == SplitSpaces(demo)
         after ==
           IF q.body = Undefined THEN
             \* const { pageText, targetLanguage, force = false } = req.body
             \* throws a TypeError: the handler's promise rejects
             Throws(q)
           ELSE IF ~Truthy(pageText) \/ ~Truthy(targetLanguage) THEN
             RespondJson(q, 400, [error |-> "Missing pageText or targetLanguage"])
           ELSE IF ~IsString(pageText) THEN
             \* Buffer.from(pageText) throws: the handler's promise rejects
             Throws(q)
           ELSE IF UseCache(q.body.force, key) THEN
             CacheHitResponse(q, key, translationCache[key])
           ELSE IF ~hasValidUserApiKey(q.auth.apiKeyEnc, env.APP_SECRET) THEN
             IF ~IsString(targetLanguage) THEN
               \* targetLanguage.toUpperCase is not a function: the handler
               \* throws after the head was written and before any event
               Throws(opened)
             ELSE
               \* first round of the loop: chunks[0], then the 50 ms pause
               [WriteEvent(opened, ContentEvent(chunks[1] \o " ", FALSE))
                  EXCEPT !.demoTranslation = demo, !.demoChunks = chunks, !.i = 0,
                         !.pc = "demo"]
           ELSE
             \* await openai.chat.completions.create({..., stream: true})
             [opened EXCEPT !.providerCalls = @ + 1, !.pc = "setup"]
     IN  IF after.pc = "rejected" THEN HandlerRejects(r, after)
         ELSE /\ req' = [req EXCEPT ![r] = after]
              /\ UNCHANGED <<running, memRate, rateLog, translationCache, cacheSource>>
  /\ UNCHANGED <<client, env, now, sessionKeys, sessionsSet, tokenSeq, issued, arrivals>>

\* After a pause of the demo loop: i++, then the next chunk or the end.
DemoStep(r) ==
  /\ req[r].pc = "demo"
  /\ LET q == [req[r] EXCEPT !.i = @ + 1,
                             !.roundsAfterClose =
                               IF req[r].connected THEN @ ELSE 1]
         chunks == q.demoChunks
     IN  IF q.i < Len(chunks) THEN
           /\ req' = [req EXCEPT ![r] =
                WriteEvent(q, ContentEvent(chunks[q.i + 1] \o " ", FALSE))]
           /\ UNCHANGED <<translationCache, cacheSource>>
         ELSE
           /\ req' = [req EXCEPT ![r] =
                EndResponse([WriteEvent(q, ContentEvent("", TRUE))
                               EXCEPT !.cacheWrites = @ + 1])]
           /\ CacheSet(q, q.demoTranslation)
  /\ UNCHANGED <<client, env, running, now, memRate, rateLog, sessionKeys, sessionsSet, tokenSeq, issued, arrivals>>

\* A catch block that passes on the message of the provider, which names the
\* key it was called with.
TranslateCatchEchoes(q) ==
  EndResponse(WriteEvent(q, ErrorEvent("Incorrect API key provided: "
                                         \o decryptApiKey(q.auth.apiKeyEnc, env.APP_SECRET).val)))

\* catch (error): one terminal event carrying the error, then res.end().
TranslateCatch(q) == EndResponse(WriteEvent(q, ErrorEvent(TranslationFailed)))

\* The provider fails: control passes to the catch block.
ProviderThrows(q) == TranslateCatch([q EXCEPT !.failed = TRUE])

\* openai.chat.completions.create resolves with a stream or rejects.
ProviderSetup(r, ok) ==
  /\ req[r].pc = "setup"
  /\ req' = [req EXCEPT ![r] =
       IF ok THEN [@ EXCEPT !.fullTranslation = "", !.pc = "streaming"]
       ELSE ProviderThrows(@)]
  /\ UNCHANGED <<client, env, running, now, memRate, rateLog, sessionKeys, sessionsSet, tokenSeq, issued, translationCache,
                 cacheSource, arrivals>>

\* A round that puts the new event before the ones already written.
StreamChunkPrepend(q, content) ==
  IF content # "" THEN
    [q EXCEPT !.fullTranslation = @ \o content,
              !.events = <<ContentEvent(content, FALSE)>> \o @]
  ELSE q

\* One round of `for await (const chunk of stream)`.
StreamChunk(q, content) ==
  IF content # "" THEN
    WriteEvent([q EXCEPT !.fullTranslation = @ \o content], ContentEvent(content, FALSE))
  ELSE q

\* The content of the next chunk: the next fragment of the answer, or none.
NextFragment(q) == ProviderFragments[Min(Len(q.fragments) + 1, Len(ProviderFragments))]

ProviderChunk(r, hasContent) ==
  /\ req[r].pc = "streaming"
  /\ req[r].chunks < MaxChunks
  /\ LET content == IF hasContent THEN NextFragment(req[r]) ELSE ""
     IN  req' = [req EXCEPT ![r] =
           StreamChunk([@ EXCEPT !.chunks = @ + 1,
                                 !.fragments = IF hasContent THEN Append(@, content) ELSE @,
                                 !.roundsAfterClose =
                                   IF req[r].connected THEN @ ELSE 1],
                       content)]
  /\ UNCHANGED <<client, env, running, now, memRate, rateLog, sessionKeys, sessionsSet, tokenSeq, issued, translationCache,
                 cacheSource, arrivals>>

\* Is the finished translation written to the cache?  (if (fullTranslation))
CommitsTranslation(fullTranslation) == fullTranslation # ""

\* The provider's stream ends: the terminal event, the cache write, res.end().
ProviderEnd(r) ==
  /\ req[r].pc = "streaming"
  /\ LET q == req[r]
         commit == CommitsTranslation(q.fullTranslation)
     IN  /\ req' = [req EXCEPT ![r] =
              EndResponse([WriteEvent(q, ContentEvent("", TRUE))
                             EXCEPT !.cacheWrites = IF commit THEN @ + 1 ELSE @])]
         /\ IF commit THEN CacheSet(q, q.fullTranslation)
                      ELSE UNCHANGED <<translationCache, cacheSource>>
  /\ UNCHANGED <<client, env, running, now, memRate, rateLog, sessionKeys, sessionsSet, tokenSeq, issued, arrivals>>

\* A failure that still keeps what was translated so far.
ProviderFailKeepsPartial(r) ==
  /\ req[r].pc = "streaming"
  /\ req' = [req EXCEPT ![r] = ProviderThrows(@)]
  /\ IF CommitsTranslation(req[r].fullTranslation)
       THEN CacheSet(req[r], req[r].fullTranslation)
       ELSE UNCHANGED <<translationCache, cacheSource>>
  /\ UNCHANGED <<client, env, running, now, memRate, rateLog, sessionKeys, sessionsSet, tokenSeq, issued, arrivals>>

\* The provider's stream throws while it is read.
ProviderFail(r) ==
  /\ req[r].pc = "streaming"
  /\ req' = [req EXCEPT ![r] = ProviderThrows(@)]
  /\ UNCHANGED <<client, env, running, now, memRate, rateLog, sessionKeys, sessionsSet, tokenSeq, issued, translationCache,
                 cacheSource, arrivals>>

\* The caller goes away while its stream is open.  The handler registers no
\* 'close' listener and passes no abort signal: nothing of the request changes
\* but that later writes reach nobody.
Disconnect(r) ==
  /\ req[r].pc \in {"demo", "setup", "streaming"}
  /\ req[r].connected
  /\ req' = [req EXCEPT ![r].connected = FALSE]
  /\ UNCHANGED <<client, env, running, now, memRate, rateLog, sessionKeys, sessionsSet, tokenSeq, issued, translationCache,
                 cacheSource, arrivals>>

\* DELETE /api/cache
ClearCache ==
  /\ running
  /\ translationCache' = EmptyMap
  /\ cacheSource' = EmptyMap
  /\ UNCHANGED <<client, env, running, now, memRate, rateLog, sessionKeys, sessionsSet, tokenSeq, issued, req, arrivals>>

(***************************************************************************)
(* POST /api/auth/login, POST /api/auth/logout, GET /api/auth/me           *)
(***************************************************************************)

\* isBcryptHash: v.startsWith('$2')
isBcryptHash(v) == Len(v) >= 2 /\ SubSeq(v, 1, 2) = "$2"

\* A bcrypt hash of a password: it verifies that password and no other.
BcryptHash(plain) == "$2b$" \o plain

\* A password check without the guard for an empty configured secret.
verifyPasswordUnguarded(plain, configured) ==
  IF isBcryptHash(configured) THEN configured = BcryptHash(plain)
  ELSE plain = configured

\* verifyPassword
verifyPassword(plain, configured) ==
  IF configured = "" THEN FALSE
  ELSE IF isBcryptHash(configured) THEN configured = BcryptHash(plain)
  ELSE plain = configured

LowerChar(c) ==
  IF IndexOf(UpperCaseLetters, c) = 0 THEN c
  ELSE CharAt(LowerCaseLetters, IndexOf(UpperCaseLetters, c))

\* s.toLowerCase()
RECURSIVE ToLowerCase(_)
ToLowerCase(s) ==
  IF Len(s) = 0 THEN ""
  ELSE LowerChar(CharAt(s, 1)) \o ToLowerCase(SubSeq(s, 2, Len(s)))

\* username.trim().toLowerCase()
CleanUsername(username) == ToLowerCase(Trim(username.str))

\* queueLoginEmail: false without a transporter, else the mail is handed to
\* the transporter in the background and the answer is true.
queueLoginEmail(e) == e.smtp

Refuse(status, error) == [status |-> status, error |-> error]

\* Login checks without the allow-list: whoever is not mara is checked
\* against the password of baru and logs in under the name given.
LoginRefusalAnyUser(body, e) ==
  IF ~IsString(body.username) \/ ~IsString(body.password)
       \/ ~IsString(body.openaiApiKey) THEN
    Refuse(400, "Missing username, password, or openaiApiKey")
  ELSE IF e.APP_SECRET = "" THEN
    Refuse(500, "Server misconfigured: missing APP_SECRET")
  ELSE IF ~StartsWithSk(Trim(body.openaiApiKey.str)) THEN
    Refuse(400, "OpenAI API key must start with sk-")
  ELSE IF ~verifyPassword(body.password.str,
                          IF CleanUsername(body.username) = "mara"
                            THEN e.AUTH_MARA_PASSWORD ELSE e.AUTH_BARU_PASSWORD)
    THEN Refuse(401, "Invalid credentials")
  ELSE Refuse(0, "")

\* Login checks that tell a caller that the username is not known.
LoginRefusalTelling(body, e) ==
  IF ~IsString(body.username) \/ ~IsString(body.password)
       \/ ~IsString(body.openaiApiKey) THEN
    Refuse(400, "Missing username, password, or openaiApiKey")
  ELSE IF e.APP_SECRET = "" THEN
    Refuse(500, "Server misconfigured: missing APP_SECRET")
  ELSE IF ~StartsWithSk(Trim(body.openaiApiKey.str)) THEN
    Refuse(400, "OpenAI API key must start with sk-")
  ELSE IF CleanUsername(body.username) \notin {"mara", "baru"} THEN
    Refuse(404, "Unknown user")
  ELSE IF ~verifyPassword(body.password.str,
                          IF CleanUsername(body.username) = "mara"
                            THEN e.AUTH_MARA_PASSWORD ELSE e.AUTH_BARU_PASSWORD)
    THEN Refuse(401, "Invalid credentials")
  ELSE Refuse(0, "")

\* The checks of the login handler before the session is made: the refusal,
\* or status 0 when the credentials are accepted.
LoginRefusal(body, e) ==
  IF ~IsString(body.username) \/ ~IsString(body.password)
       \/ ~IsString(body.openaiApiKey) THEN
    Refuse(400, "Missing username, password, or openaiApiKey")
  ELSE IF e.APP_SECRET = "" THEN
    Refuse(500, "Server misconfigured: missing APP_SECRET")
  ELSE IF ~StartsWithSk(Trim(body.openaiApiKey.str)) THEN
    Refuse(400, "OpenAI API key must start with sk-")
  ELSE IF CleanUsername(body.username) \notin {"mara", "baru"} THEN
    Refuse(401, "Invalid credentials")
  ELSE IF ~verifyPassword(body.password.str,
                          IF CleanUsername(body.username) = "mara"
                            THEN e.AUTH_MARA_PASSWORD ELSE e.AUTH_BARU_PASSWORD)
    THEN Refuse(401, "Invalid credentials")
  ELSE Refuse(0, "")

\* The end of the login handler once the token is made.  With
\* EMAIL_DEBUG_SYNC=1 it goes on to await trySendLoginEmail; otherwise
\* queueLoginEmail hands the mail over in the background and the answer is
\* res.json({ token, username, expiresIn: SESSION_TTL_SECONDS, emailQueued }).
LoginSuccess(q, token) ==
  IF env.EMAIL_DEBUG_SYNC THEN
    [q EXCEPT !.token = token, !.pc = "email",
              !.mail = IF env.smtp THEN "awaited" ELSE "unconfigured"]
  ELSE
    RespondJson([q EXCEPT !.token = token,
                          !.mail = IF queueLoginEmail(env) THEN "queued" ELSE "unconfigured"],
                200, [token |-> token, username |-> q.cleanUsername,
                      expiresIn |-> SESSION_TTL_SECONDS,
                      emailQueued |-> queueLoginEmail(env)])

\* detectSource: 'vercel' when process.env.VERCEL is set, 'localhost' when the
\* Host header includes that word, 'server' otherwise.
detectSource(vercel, host) ==
  IF vercel # "" THEN "vercel"
  ELSE IF \E i \in 1..Len(host) :
            i + 8 <= Len(host) /\ SubSeq(host, i, i + 8) = "localhost" THEN "localhost"
  ELSE "server"

\* The server of the runs: no VERCEL variable, requests for this host.
RequestSource == detectSource("", "translator.example")

\* trySendLoginEmail: without transporter the result is the error 'SMTP not
\* configured'; else ok when transporter.sendMail resolves, and the error of
\* sendMail when it rejects.
trySendLoginEmail(e, sent) ==
  IF ~e.smtp THEN [ok |-> FALSE, source |-> RequestSource, message |-> "SMTP not configured"]
  ELSE IF sent THEN [ok |-> TRUE, source |-> RequestSource, message |-> ""]
  ELSE [ok |-> FALSE, source |-> RequestSource, message |-> "Connection timeout"]

\* The body of the answer under EMAIL_DEBUG_SYNC=1: emailError is there when
\* the mail was not sent (an undefined member is left out of the JSON).
LoginEmailJson(q, result) ==
  IF result.ok THEN
    [token |-> q.token, username |-> q.cleanUsername, expiresIn |-> SESSION_TTL_SECONDS,
     emailQueued |-> TRUE, emailOk |-> TRUE, emailSource |-> result.source]
  ELSE
    [token |-> q.token, username |-> q.cleanUsername, expiresIn |-> SESSION_TTL_SECONDS,
     emailQueued |-> result.message # "SMTP not configured", emailOk |-> FALSE,
     emailSource |-> result.source, emailError |-> [message |-> result.message]]

\* A handler that answers 500 when the awaited mail was not sent.
LoginEmailSyncStrict(r, sent) ==
  /\ req[r].pc = "email"
  /\ LET q == req[r]
         result == trySendLoginEmail(env, sent)
     IN  req' = [req EXCEPT ![r] =
           IF result.ok THEN
             RespondJson([q EXCEPT !.mail = "sent"], 200, LoginEmailJson(q, result))
           ELSE
             RespondJson([q EXCEPT !.mail = IF env.smtp THEN "failed" ELSE "unconfigured"],
                         500, [error |-> "Login failed"])]
  /\ UNCHANGED <<client, env, running, now, memRate, rateLog, sessionKeys, sessionsSet, tokenSeq, issued,
                 translationCache, cacheSource, arrivals>>

\* EMAIL_DEBUG_SYNC=1: the awaited trySendLoginEmail comes back and the
\* handler answers with the token and the result of the mail.
LoginEmailSync(r, sent) ==
  /\ req[r].pc = "email"
  /\ LET q == req[r]
         result == trySendLoginEmail(env, sent)
     IN  req' = [req EXCEPT ![r] =
           RespondJson([q EXCEPT !.mail = IF ~env.smtp THEN "unconfigured"
                                          ELSE IF result.ok THEN "sent" ELSE "failed"],
                       200, LoginEmailJson(q, result))]
  /\ UNCHANGED <<client, env, running, now, memRate, rateLog, sessionKeys, sessionsSet, tokenSeq, issued,
                 translationCache, cacheSource, arrivals>>

\* The mail queueLoginEmail handed to the transporter is sent, or its
\* sendMail rejects and .catch logs a warning: the response is out already.
QueuedEmailSettles(r, sent) ==
  /\ running
  /\ req[r].pc = "done"
  /\ req[r].mail = "queued"
  /\ req' = [req EXCEPT ![r].mail = IF sent THEN "sent" ELSE "failed"]
  /\ UNCHANGED <<client, env, running, now, memRate, rateLog, sessionKeys, sessionsSet, tokenSeq, issued,
                 translationCache, cacheSource, arrivals>>

\* crypto.randomBytes(12): the values the iv of a login can take.
RandomIvs == {"iv1", "iv2"}

\* The login handler up to its first store round trip.
LoginStart(r, iv) ==
  /\ req[r].pc = "login"
  /\ LET q == req[r]
         refusal == LoginRefusal(q.body, env)
         clean == CleanUsername(q.body.username)
         enc == encryptApiKey(Trim(q.body.openaiApiKey.str), env.APP_SECRET, iv).val
         accepted == [q EXCEPT !.cleanUsername = clean, !.apiKeyEnc = enc]
         signed == createStatelessToken(clean, enc, SESSION_TTL_SECONDS,
                                        env.APP_SECRET, now)
     IN  /\ req' = [req EXCEPT ![r] =
              IF refusal.status # 0 THEN RespondJson(q, refusal.status, [error |-> refusal.error])
              ELSE IF env.redis THEN
                \* storage.countActiveSessions() -> pruneSessions() -> smembers
                [accepted EXCEPT !.pc = "smembers"]
              ELSE LoginSuccess(accepted, signed)]
         /\ issued' = IF refusal.status = 0 /\ ~env.redis
                        THEN MapSet(issued, signed, Issue(clean, enc, now))
                        ELSE issued
  /\ UNCHANGED <<client, env, running, now, memRate, rateLog, sessionKeys, sessionsSet, tokenSeq,
                 translationCache, cacheSource, arrivals>>

\* pruneSessions: const tokens = await redis.smembers('sessions')
PruneSmembers(r) ==
  /\ req[r].pc = "smembers"
  /\ req' = [req EXCEPT ![r].tokens = sessionsSet,
                        ![r].pc = IF sessionsSet = {} THEN "scard" ELSE "exists"]
  /\ UNCHANGED <<client, env, running, now, memRate, rateLog, sessionKeys, sessionsSet, tokenSeq, issued,
                 translationCache, cacheSource, arrivals>>

\* pruneSessions: await redis.exists(`session:${token}`) for the next token.
PruneExists(r, token) ==
  /\ req[r].pc = "exists"
  /\ token \in req[r].tokens
  /\ LET rest == req[r].tokens \ {token}
     IN  req' = [req EXCEPT ![r].tokens = rest,
                            ![r].pruning = token,
                            ![r].pc = IF ~RedisExists(sessionKeys, token, now) THEN "srem"
                                      ELSE IF rest = {} THEN "scard" ELSE "exists"]
  /\ UNCHANGED <<client, env, running, now, memRate, rateLog, sessionKeys, sessionsSet, tokenSeq, issued,
                 translationCache, cacheSource, arrivals>>

\* pruneSessions: await redis.srem('sessions', token)
PruneSrem(r) ==
  /\ req[r].pc = "srem"
  /\ sessionsSet' = sessionsSet \ {req[r].pruning}
  /\ req' = [req EXCEPT ![r].pc = IF req[r].tokens = {} THEN "scard" ELSE "exists"]
  /\ UNCHANGED <<client, env, running, now, memRate, rateLog, sessionKeys, tokenSeq, issued, translationCache,
                 cacheSource, arrivals>>

\* A cap that lets one login too many through.
AtCapacityOffByOne(active) == active > MAX_ACTIVE_SESSIONS

\* if (active >= MAX_ACTIVE_SESSIONS)
AtCapacity(active) == active >= MAX_ACTIVE_SESSIONS

\* countActiveSessions: await redis.scard('sessions'); then the cap check and
\* the new token.
LoginScard(r) ==
  /\ req[r].pc = "scard"
  /\ LET q == [req[r] EXCEPT !.active = Cardinality(sessionsSet)]
     IN  IF AtCapacity(q.active) THEN
           /\ req' = [req EXCEPT ![r] =
                RespondJson(q, 429,
                  [error |-> "Maximum " \o NatToString(MAX_ACTIVE_SESSIONS)
                               \o " active users already logged in"])]
           /\ UNCHANGED tokenSeq
         ELSE
           /\ req' = [req EXCEPT ![r] =
                [q EXCEPT !.token = OpaqueToken(tokenSeq + 1), !.pc = "set"]]
           /\ tokenSeq' = tokenSeq + 1
  /\ UNCHANGED <<client, env, running, now, memRate, rateLog, sessionKeys, sessionsSet, issued, translationCache,
                 cacheSource, arrivals>>

\* setSession: await redis.set(sessionKey, ..., { ex: ttlSeconds })
LoginSet(r) ==
  /\ req[r].pc = "set"
  /\ sessionKeys' = MapSet(sessionKeys, req[r].token,
                           [username |-> req[r].cleanUsername,
                            apiKeyEnc |-> req[r].apiKeyEnc,
                            expiresAt |-> now + SESSION_TTL_SECONDS * 1000])
  /\ req' = [req EXCEPT ![r].pc = "sadd"]
  /\ UNCHANGED <<client, env, running, now, memRate, rateLog, sessionsSet, tokenSeq, issued, translationCache,
                 cacheSource, arrivals>>

\* setSession: await redis.sadd('sessions', token); then the response.
LoginSadd(r) ==
  /\ req[r].pc = "sadd"
  /\ sessionsSet' = sessionsSet \cup {req[r].token}
  /\ req' = [req EXCEPT ![r] = LoginSuccess(@, @.token)]
  /\ issued' = MapSet(issued, req[r].token,
                      Issue(req[r].cleanUsername, req[r].apiKeyEnc, now))
  /\ UNCHANGED <<client, env, running, now, memRate, rateLog, sessionKeys, tokenSeq, translationCache,
                 cacheSource, arrivals>>

\* The logout handler: storage.deleteSession(token).  Without Redis it is a
\* no-op and the answer follows at once.
LogoutStart(r) ==
  /\ req[r].pc = "logout"
  /\ req' = [req EXCEPT ![r] =
       IF env.redis THEN [@ EXCEPT !.pc = "del"]
       ELSE RespondJson(@, 200, [ok |-> TRUE])]
  /\ issued' = IF env.redis THEN issued ELSE LogoutCompleted(issued, req[r].auth.token)
  /\ UNCHANGED <<client, env, running, now, memRate, rateLog, sessionKeys, sessionsSet, tokenSeq,
                 translationCache, cacheSource, arrivals>>

\* A logout that forgets the session key and only cleans the set.
LogoutDelKeepsKey(r) ==
  /\ req[r].pc = "del"
  /\ req' = [req EXCEPT ![r].pc = "logoutSrem"]
  /\ UNCHANGED <<client, env, running, now, memRate, rateLog, sessionKeys, sessionsSet, tokenSeq, issued,
                 translationCache, cacheSource, arrivals>>

\* deleteSession: await redis.del(`session:${token}`)
LogoutDel(r) ==
  /\ req[r].pc = "del"
  /\ sessionKeys' = [t \in DOMAIN sessionKeys \ {req[r].auth.token} |-> sessionKeys[t]]
  /\ req' = [req EXCEPT ![r].pc = "logoutSrem"]
  /\ UNCHANGED <<client, env, running, now, memRate, rateLog, sessionsSet, tokenSeq, issued, translationCache,
                 cacheSource, arrivals>>

\* deleteSession: await redis.srem('sessions', token); then { ok: true }.
LogoutSrem(r) ==
  /\ req[r].pc = "logoutSrem"
  /\ sessionsSet' = sessionsSet \ {req[r].auth.token}
  /\ req' = [req EXCEPT ![r] = RespondJson(@, 200, [ok |-> TRUE])]
  /\ issued' = LogoutCompleted(issued, req[r].auth.token)
  /\ UNCHANGED <<client, env, running, now, memRate, rateLog, sessionKeys, tokenSeq, translationCache,
                 cacheSource, arrivals>>

\* The redis.get of storage.getSession rejects under requireAuth, which has
\* no try around it: the middleware's promise rejects, next() is not called
\* and requireAuth writes no response.
RequireAuthStoreFails(r) ==
  /\ req[r].pc = "auth"
  /\ env.redis
  /\ getBearerToken(req[r].authorization).ok
  /\ HandlerRejects(r, Throws([req[r] EXCEPT !.lookups = @ + 1]))
  /\ UNCHANGED <<client, env, now, sessionKeys, sessionsSet, tokenSeq, issued, arrivals>>

\* A Redis command of the login handler rejects: catch (e), 500.
LoginStoreFails(r) ==
  /\ req[r].pc \in {"smembers", "exists", "srem", "scard", "set", "sadd"}
  /\ req' = [req EXCEPT ![r] = RespondJson(@, 500, [error |-> "Login failed"])]
  /\ UNCHANGED <<client, env, running, now, memRate, rateLog, sessionKeys, sessionsSet, tokenSeq, issued,
                 translationCache, cacheSource, arrivals>>

\* A Redis command of deleteSession rejects: catch (e), 500.
LogoutStoreFails(r) ==
  /\ req[r].pc \in {"del", "logoutSrem"}
  /\ req' = [req EXCEPT ![r] = RespondJson(@, 500, [error |-> "Logout failed"])]
  /\ UNCHANGED <<client, env, running, now, memRate, rateLog, sessionKeys, sessionsSet, tokenSeq, issued,
                 translationCache, cacheSource, arrivals>>

\* GET /api/auth/me
Me(r) ==
  /\ req[r].pc = "me"
  /\ req' = [req EXCEPT ![r] = RespondJson(@, 200, [username |-> @.auth.username])]
  /\ UNCHANGED <<client, env, running, now, memRate, rateLog, sessionKeys, sessionsSet, tokenSeq, issued,
                 translationCache, cacheSource, arrivals>>

\* Time passes.
Tick(ms) ==
  /\ now' = now + ms
  /\ UNCHANGED <<client, env, running, memRate, rateLog, sessionKeys, sessionsSet, tokenSeq, issued, translationCache,
                 cacheSource, req, arrivals>>

(***************************************************************************)
(* The translate route under load: specification Spec                      *)
(***************************************************************************)

\* The secret of the running process, and the one an earlier deployment used.
CurrentSecret == "k1"

FormerSecret == "k0"

SessionTtlMs == SESSION_TTL_SECONDS * 1000

\* Sessions earlier logins left in Redis: mara and baru, and a session of mara
\* whose credential was sealed under the former secret.
TokA == OpaqueToken(1)

TokB == OpaqueToken(2)

TokC == OpaqueToken(3)

StoredSession(username, plain, secret) ==
  [username |-> username, apiKeyEnc |-> encryptApiKey(plain, secret, "iv1").val,
   expiresAt |-> SessionTtlMs]

StoredSessions ==
  (TokA :> StoredSession("mara", "sk-mara", CurrentSecret))
    @@ (TokB :> StoredSession("baru", "sk-baru", CurrentSecret))
    @@ (TokC :> StoredSession("mara", "sk-mara", FormerSecret))

\* Tokens earlier logins handed out without Redis.
SignedA ==
  createStatelessToken("mara", encryptApiKey("sk-mara", CurrentSecret, "iv1").val,
                       SESSION_TTL_SECONDS, CurrentSecret, 0)

SignedB ==
  createStatelessToken("baru", encryptApiKey("sk-baru", CurrentSecret, "iv1").val,
                       SESSION_TTL_SECONDS, CurrentSecret, 0)

\* The logins behind the tokens handed out before the run, at time 0.
IssuedEarlier(tokens) ==
  [t \in tokens |->
     IF t.kind = "signed" THEN Issue(t.payload.u, t.payload.k, 0)
     ELSE Issue(StoredSessions[t].username, StoredSessions[t].apiKeyEnc, 0)]

\* A text of the same length that differs in its last byte (for the empty
\* text: one byte more).
ModifiedText(s) ==
  IF s = "" THEN "x"
  ELSE SubSeq(s, 1, Len(s) - 1) \o (IF CharAt(s, Len(s)) = "x" THEN "y" ELSE "x")

\* An Authorization header of another scheme.
Basic(token) == [type |-> "Basic", token |-> token]

\* The tokens a caller can make of a token without the secret.  Of a signed
\* token: another user, a later exp or another sealed key in the payload; the
\* signature of the token with the later exp; a signature under the former
\* secret.  Of a random token: another random value.
Forgeries(token) ==
  IF token.kind = "signed" THEN
    { [token EXCEPT !.payload.u = IF @ = "mara" THEN "baru" ELSE "mara"],
      [token EXCEPT !.payload.exp = @ + SESSION_TTL_SECONDS],
      [token EXCEPT !.payload.k.ct.plain = ModifiedText(@)],
      [token EXCEPT !.sig.payload.exp = @ + SESSION_TTL_SECONDS],
      [token EXCEPT !.sig = signStateless(token.payload, FormerSecret)] }
  ELSE { [token EXCEPT !.id = @ + SESSION_TTL_SECONDS] }

\* The process environment: with or without Upstash Redis, on Express 4.
Environment(redis) ==
  [redis |-> redis, automaticDeserialization |-> FALSE, express |-> 4,
   APP_SECRET |-> CurrentSecret,
   smtp |-> TRUE, EMAIL_DEBUG_SYNC |-> FALSE,
   AUTH_MARA_PASSWORD |-> "pw-mara", AUTH_BARU_PASSWORD |-> "pw-baru"]

\* new Redis({ url, token }): the client hands the answers of Redis on as
\* they are, or deserializes them, as the library it was built from does.
Deployments(environments) ==
  environments
    \cup {[e EXCEPT !.automaticDeserialization = TRUE] : e \in {x \in environments : x.redis}}

\* import express from 'express': the major version the server was installed
\* with, 4 or 5.
Frameworks(environments) ==
  environments \cup {[e EXCEPT !.express = 5] : e \in environments}

ClientIps == {"10.0.0.1"}

\* The client has one request left in its translate window.
NearlyExhaustedRate ==
  RateKey("translate", "10.0.0.1") :>
    [resetAt |-> parseWindowToMs(RouteLimiter("translate").window),
     count |-> RouteLimiter("translate").limit - 1]

\* The requests of the run: both users translating the same page, with and
\* without force; the session with the stale credential, with a target
\* language that is no string (the rounds of its demo text are left to
\* SpecPages and SpecLive); without Redis, mara with a page text that is no
\* string; a request without pageText; one without token.
Hello == [pageText |-> Str("hello"), targetLanguage |-> Str("german"), force |-> FALSE]

StreamRequests ==
  LET tokens == IF env.redis THEN {TokA, TokB} ELSE {SignedA, SignedB}
  IN  [authorization : {Bearer(t) : t \in tokens},
       body : {Hello, [Hello EXCEPT !.force = TRUE]}]
      \cup [authorization : IF env.redis THEN {Bearer(TokC)} ELSE {},
            body : {[Hello EXCEPT !.targetLanguage = Num(5)]}]
      \cup [authorization : IF env.redis THEN {} ELSE {Bearer(SignedA)},
            body : {[Hello EXCEPT !.pageText = Num(5)]}]
      \cup [authorization : {Bearer(t) : t \in tokens},
            body : {[Hello EXCEPT !.pageText = Undefined]}]
      \cup [authorization : {NoHeader}, body : {Hello}]

Init ==
  /\ env \in Deployments({Environment(TRUE), Environment(FALSE)})
  /\ running = TRUE
  /\ now = 0
  /\ tokenSeq = Cardinality(DOMAIN StoredSessions)
  /\ issued = IssuedEarlier(IF env.redis THEN DOMAIN StoredSessions ELSE {SignedA, SignedB})
  /\ memRate = IF env.redis THEN EmptyMap ELSE NearlyExhaustedRate
  /\ rateLog = [k \in DOMAIN memRate |->
                 [start |-> 0, n |-> memRate[k].count, passed |-> memRate[k].count]]
  /\ sessionKeys = IF env.redis THEN StoredSessions ELSE EmptyMap
  /\ sessionsSet = IF env.redis THEN DOMAIN StoredSessions ELSE {}
  /\ translationCache = EmptyMap
  /\ cacheSource = EmptyMap
  /\ req = [r \in Reqs |-> IdleReq]
  /\ arrivals = 0
  /\ client = NoClient

\* The response of r is complete (or its handler has thrown): the slot is free
\* for the next request.
Retire(r) ==
  /\ req[r].pc \in {"done", "crashed"}
  /\ req' = [req EXCEPT ![r] = IdleReq]
  /\ UNCHANGED <<client, env, running, now, memRate, rateLog, sessionKeys, sessionsSet, tokenSeq, issued, translationCache,
                 cacheSource, arrivals>>

\* No finished request waits for its slot to be freed.
Quiet == \A r \in DOMAIN req : req[r].pc \notin {"done", "crashed"}

\* A finished request leaves its slot before anything else happens: every
\* other step waits for Quiet.
Next ==
  \/ \E r \in DOMAIN req : Retire(r)
  \/ /\ Quiet
     /\ arrivals < MaxArrivals
     /\ Counted
     /\ \E r \in DOMAIN req, ip \in ClientIps, i \in StreamRequests :
          Arrive(r, "translate", ip, i.authorization, i.body)
  \/ Quiet /\ \E r \in DOMAIN req : RateLimitMemory(r)
  \/ Quiet /\ \E r \in DOMAIN req, o \in LimitOutcomes : RateLimitDistributed(r, o)
  \/ Quiet /\ \E r \in DOMAIN req : RequireAuth(r)
  \/ Quiet /\ \E r \in DOMAIN req : TranslateStart(r)
  \/ Quiet /\ \E r \in DOMAIN req, ok \in BOOLEAN : ProviderSetup(r, ok)
  \/ Quiet /\ \E r \in DOMAIN req, c \in BOOLEAN : ProviderChunk(r, c)
  \/ Quiet /\ \E r \in DOMAIN req : ProviderEnd(r)
  \/ Quiet /\ \E r \in DOMAIN req : ProviderFail(r)
  \/ Quiet /\ \E r \in DOMAIN req : Disconnect(r)
  \/ Quiet /\ ClearCache

Spec == Init /\ [][Next]_vars

(***************************************************************************)
(* Logins and logouts: specifications SpecAuth and SpecAuthSeq             *)
(***************************************************************************)

\* Clients that can have a login or logout in flight at the same time.
NumClients == 3

\* Login, logout and /me requests accepted over one run.
MaxAuthArrivals == 3

LoginBody(username, password, openaiApiKey) ==
  [username |-> Str(username), password |-> Str(password),
   openaiApiKey |-> Str(openaiApiKey)]

\* The distributed limiter is up and lets the request pass.
LimitPasses == {o \in LimitOutcomes : ~o.threw /\ o.success}

InitStore(tokens, environments) ==
  /\ env \in Deployments(environments)
  /\ running = TRUE
  /\ now = 0
  /\ memRate = EmptyMap
  /\ rateLog = EmptyMap
  /\ sessionKeys = IF env.redis THEN [t \in tokens |-> StoredSessions[t]] ELSE EmptyMap
  /\ sessionsSet = IF env.redis THEN tokens ELSE {}
  /\ tokenSeq = Cardinality(DOMAIN StoredSessions)
  /\ issued = IssuedEarlier(IF env.redis THEN tokens ELSE {SignedA})
  /\ translationCache = EmptyMap
  /\ cacheSource = EmptyMap
  /\ req = [r \in 1..NumClients |-> IdleReq]
  /\ arrivals = 0
  /\ client = NoClient

\* Overlapping logins and logouts; one session (mara's) is live at the start.
InitAuth == InitStore({TokA}, {Environment(TRUE), Environment(FALSE)})

ConcurrentLogins ==
  { LoginBody("mara", "pw-mara", "sk-mara"), LoginBody("mara", "guess", "sk-mara") }

NextAuth ==
  \/ \E r \in DOMAIN req : Retire(r)
  \/ /\ Quiet
     /\ arrivals < MaxAuthArrivals
     /\ Counted
     /\ \E r \in DOMAIN req, ip \in ClientIps, b \in ConcurrentLogins :
          Arrive(r, "login", ip, NoHeader, b)
  \/ /\ Quiet
     /\ arrivals < MaxAuthArrivals
     /\ Counted
     /\ \E r \in DOMAIN req, ip \in ClientIps, t \in DOMAIN issued :
          Arrive(r, "logout", ip, Bearer(t), NoJson)
  \/ Quiet /\ \E r \in DOMAIN req : RateLimitMemory(r)
  \/ Quiet /\ \E r \in DOMAIN req, o \in LimitPasses : RateLimitDistributed(r, o)
  \/ Quiet /\ \E r \in DOMAIN req : RequireAuth(r)
  \/ Quiet /\ \E r \in DOMAIN req, iv \in {"iv2"} : LoginStart(r, iv)
  \/ Quiet /\ \E r \in DOMAIN req : PruneSmembers(r)
  \/ Quiet /\ \E r \in DOMAIN req : \E t \in req[r].tokens : PruneExists(r, t)
  \/ Quiet /\ \E r \in DOMAIN req : PruneSrem(r)
  \/ Quiet /\ \E r \in DOMAIN req : LoginScard(r)
  \/ Quiet /\ \E r \in DOMAIN req : LoginSet(r)
  \/ Quiet /\ \E r \in DOMAIN req : LoginSadd(r)
  \/ Quiet /\ \E r \in DOMAIN req : LogoutStart(r)
  \/ Quiet /\ \E r \in DOMAIN req : LogoutDel(r)
  \/ Quiet /\ \E r \in DOMAIN req : LogoutSrem(r)

SpecAuth == InitAuth /\ [][NextAuth]_vars

\* Logins, logouts and /me requests one after the other; both of the
\* MAX_ACTIVE_SESSIONS sessions are live at the start and may run out: time
\* passes by the time to live of a session and one second.  The iv of a
\* login plays no part in what the handlers do: one value stands for all here.
MaxSeqArrivals == 4

MaxDays == 1

InitAuthSeq == InitStore({TokA, TokB}, {Environment(TRUE), Environment(FALSE)})

SequentialLogins ==
  { LoginBody("mara", "pw-mara", "sk-mara"), LoginBody(" Baru ", "pw-baru", " sk-baru"),
    LoginBody("mara", "guess", "sk-mara"), LoginBody("baru", "pw-baru", "baru-key") }

NoneInFlight == \A r \in DOMAIN req : req[r].pc = "idle"

NextAuthSeq ==
  \/ \E r \in DOMAIN req : Retire(r)
  \/ /\ NoneInFlight
     /\ arrivals < MaxSeqArrivals
     /\ Counted
     /\ \E r \in DOMAIN req, ip \in ClientIps, b \in SequentialLogins :
          Arrive(r, "login", ip, NoHeader, b)
  \/ /\ NoneInFlight
     /\ arrivals < MaxSeqArrivals
     /\ Counted
     /\ \E r \in DOMAIN req, ip \in ClientIps, t \in DOMAIN issued, route \in {"logout", "me"} :
          Arrive(r, route, ip, Bearer(t), NoJson)
  \/ /\ NoneInFlight
     /\ now < MaxDays * SessionTtlMs
     /\ Tick(SessionTtlMs + 1000)
  \/ Quiet /\ \E r \in DOMAIN req : RateLimitMemory(r)
  \/ Quiet /\ \E r \in DOMAIN req, o \in LimitPasses : RateLimitDistributed(r, o)
  \/ Quiet /\ \E r \in DOMAIN req : RequireAuth(r)
  \/ Quiet /\ \E r \in DOMAIN req, iv \in {"iv2"} : LoginStart(r, iv)
  \/ Quiet /\ \E r \in DOMAIN req : PruneSmembers(r)
  \/ Quiet /\ \E r \in DOMAIN req : \E t \in req[r].tokens : PruneExists(r, t)
  \/ Quiet /\ \E r \in DOMAIN req : PruneSrem(r)
  \/ Quiet /\ \E r \in DOMAIN req : LoginScard(r)
  \/ Quiet /\ \E r \in DOMAIN req : LoginSet(r)
  \/ Quiet /\ \E r \in DOMAIN req : LoginSadd(r)
  \/ Quiet /\ \E r \in DOMAIN req : LogoutStart(r)
  \/ Quiet /\ \E r \in DOMAIN req : LogoutDel(r)
  \/ Quiet /\ \E r \in DOMAIN req : LogoutSrem(r)
  \/ Quiet /\ \E r \in DOMAIN req : Me(r)

SpecAuthSeq == InitAuthSeq /\ [][NextAuthSeq]_vars

\* The same requests, one after the other, with a Redis whose commands may
\* fail under a login or a logout, and with a login mail that may be sent, may
\* fail or may never come back; SMTP is configured or not, and the mail is
\* queued or (EMAIL_DEBUG_SYNC=1) awaited: specification SpecFaults.
MaxFaultArrivals == 3

InitFaults ==
  InitStore({TokA},
            { [Environment(redis) EXCEPT !.smtp = smtp, !.EMAIL_DEBUG_SYNC = sync] :
                redis \in BOOLEAN, smtp \in BOOLEAN, sync \in BOOLEAN })

NextFaults ==
  \/ \E r \in DOMAIN req : Retire(r)
  \/ \E r \in DOMAIN req, sent \in BOOLEAN : QueuedEmailSettles(r, sent)
  \/ /\ NoneInFlight
     /\ arrivals < MaxFaultArrivals
     /\ Counted
     /\ \E r \in DOMAIN req, ip \in ClientIps,
           b \in ConcurrentLogins \cup {LoginBody(" Eve", "pw-mara", "sk-mara")} :
          Arrive(r, "login", ip, NoHeader, b)
  \/ /\ NoneInFlight
     /\ arrivals < MaxFaultArrivals
     /\ Counted
     /\ \E r \in DOMAIN req, ip \in ClientIps, t \in DOMAIN issued, route \in {"logout", "me"} :
          Arrive(r, route, ip, Bearer(t), NoJson)
  \/ /\ NoneInFlight
     /\ arrivals < MaxFaultArrivals
     /\ Counted
     /\ \E r \in DOMAIN req, ip \in ClientIps, t \in DOMAIN issued, route \in {"logout", "me"} :
          \E h \in {NoHeader, Basic(t), Bearer(NoToken)} \cup {Bearer(f) : f \in Forgeries(t)} :
            Arrive(r, route, ip, h, NoJson)
  \/ Quiet /\ \E r \in DOMAIN req : RateLimitMemory(r)
  \/ Quiet /\ \E r \in DOMAIN req, o \in LimitPasses : RateLimitDistributed(r, o)
  \/ Quiet /\ \E r \in DOMAIN req : RequireAuth(r)
  \/ Quiet /\ \E r \in DOMAIN req, iv \in RandomIvs : LoginStart(r, iv)
  \/ Quiet /\ \E r \in DOMAIN req : PruneSmembers(r)
  \/ Quiet /\ \E r \in DOMAIN req : \E t \in req[r].tokens : PruneExists(r, t)
  \/ Quiet /\ \E r \in DOMAIN req : PruneSrem(r)
  \/ Quiet /\ \E r \in DOMAIN req : LoginScard(r)
  \/ Quiet /\ \E r \in DOMAIN req : LoginSet(r)
  \/ Quiet /\ \E r \in DOMAIN req : LoginSadd(r)
  \/ Quiet /\ \E r \in DOMAIN req : RequireAuthStoreFails(r)
  \/ Quiet /\ \E r \in DOMAIN req : LoginStoreFails(r)
  \/ Quiet /\ \E r \in DOMAIN req, sent \in BOOLEAN : LoginEmailSync(r, sent)
  \/ Quiet /\ \E r \in DOMAIN req : LogoutStart(r)
  \/ Quiet /\ \E r \in DOMAIN req : LogoutDel(r)
  \/ Quiet /\ \E r \in DOMAIN req : LogoutSrem(r)
  \/ Quiet /\ \E r \in DOMAIN req : LogoutStoreFails(r)
  \/ Quiet /\ \E r \in DOMAIN req : Me(r)

SpecFaults == InitFaults /\ [][NextFaults]_vars

(***************************************************************************)
(* The limiter over time: specification SpecRate                           *)
(***************************************************************************)

\* Half of the translate window passes with every tick; MaxTicks of them.
MaxTicks == 4

HalfWindow == parseWindowToMs(RouteLimiter("translate").window) \div 2

\* The client has two logins left in its login window.
LoginsLeft == 2

InitRate ==
  /\ env \in Deployments({Environment(TRUE), Environment(FALSE)})
  /\ running = TRUE
  /\ now = 0
  /\ memRate = IF env.redis THEN EmptyMap
               ELSE RateKey("auth-login", "10.0.0.1") :>
                      [resetAt |-> parseWindowToMs(RouteLimiter("login").window),
                       count |-> RouteLimiter("login").limit - LoginsLeft]
  /\ rateLog = [k \in DOMAIN memRate |->
                 [start |-> 0, n |-> memRate[k].count, passed |-> memRate[k].count]]
  /\ sessionKeys = EmptyMap
  /\ sessionsSet = {}
  /\ tokenSeq = 0
  /\ issued = EmptyMap
  /\ translationCache = EmptyMap
  /\ cacheSource = EmptyMap
  /\ req = [r \in Reqs |-> IdleReq]
  /\ arrivals = 0
  /\ client = NoClient

\* A login with an empty JSON body, and a translation without a token: the
\* handlers behind the limiter answer them at once.  The requests come one
\* after the other.
EmptyLogin == [username |-> Undefined, password |-> Undefined, openaiApiKey |-> Undefined]

NextRate ==
  \/ \E r \in DOMAIN req : Retire(r)
  \/ /\ NoneInFlight
     /\ UNCHANGED arrivals
     /\ \E r \in DOMAIN req, ip \in ClientIps : Arrive(r, "translate", ip, NoHeader, Hello)
  \/ /\ NoneInFlight
     /\ UNCHANGED arrivals
     /\ \E r \in DOMAIN req, ip \in ClientIps : Arrive(r, "login", ip, NoHeader, EmptyLogin)
  \/ /\ Quiet
     /\ now < MaxTicks * HalfWindow
     /\ Tick(HalfWindow)
  \/ Quiet /\ \E r \in DOMAIN req : RateLimitMemory(r)
  \/ Quiet /\ \E r \in DOMAIN req, o \in LimitOutcomes : RateLimitDistributed(r, o)
  \/ Quiet /\ \E r \in DOMAIN req : RequireAuth(r)
  \/ Quiet /\ \E r \in DOMAIN req, iv \in RandomIvs : LoginStart(r, iv)

SpecRate == InitRate /\ [][NextRate]_vars

(***************************************************************************)
(* Pages of one document: specification SpecPages                          *)
(***************************************************************************)

\* Translate requests accepted over one run, one after the other.
MaxPageArrivals == 2

\* Two pages of one document: they open with the same running head, which
\* fills the first 24 bytes of both.
PageOne ==
  [pageText |-> Str("Annual report 2024 - page 1"), targetLanguage |-> Str("german"),
   force |-> FALSE]

PageTwo == [PageOne EXCEPT !.pageText = Str("Annual report 2024 - page 2")]

\* mara with a working key and, with Redis, the session with the stale
\* credential ask for the two pages; mara also sends requests without text,
\* with an empty text, without target language and without any body.
PageRequests ==
  [authorization : IF env.redis THEN {Bearer(TokA), Bearer(TokC)} ELSE {Bearer(SignedA)},
   body : {PageOne, PageTwo}]
    \cup [authorization : {Bearer(IF env.redis THEN TokA ELSE SignedA)},
          body : {[PageOne EXCEPT !.pageText = Undefined], [PageOne EXCEPT !.pageText = Str("")],
                  [PageOne EXCEPT !.targetLanguage = Undefined],
                  BodylessBody(env.express)}]

InitPages ==
  /\ env \in Frameworks(Deployments({Environment(TRUE), Environment(FALSE)}))
  /\ running = TRUE
  /\ now = 0
  /\ tokenSeq = Cardinality(DOMAIN StoredSessions)
  /\ issued = IssuedEarlier(IF env.redis THEN DOMAIN StoredSessions ELSE {SignedA, SignedB})
  /\ memRate = EmptyMap
  /\ rateLog = EmptyMap
  /\ sessionKeys = IF env.redis THEN StoredSessions ELSE EmptyMap
  /\ sessionsSet = IF env.redis THEN DOMAIN StoredSessions ELSE {}
  /\ translationCache = EmptyMap
  /\ cacheSource = EmptyMap
  /\ req = [r \in Reqs |-> IdleReq]
  /\ arrivals = 0
  /\ client = NoClient

NextPages ==
  \/ \E r \in DOMAIN req : Retire(r)
  \/ /\ NoneInFlight
     /\ arrivals < MaxPageArrivals
     /\ Counted
     /\ \E r \in DOMAIN req, ip \in ClientIps, i \in PageRequests :
          Arrive(r, "translate", ip, i.authorization, i.body)
  \/ Quiet /\ \E r \in DOMAIN req : RateLimitMemory(r)
  \/ Quiet /\ \E r \in DOMAIN req, o \in LimitPasses : RateLimitDistributed(r, o)
  \/ Quiet /\ \E r \in DOMAIN req : RequireAuth(r)
  \/ Quiet /\ \E r \in DOMAIN req : TranslateStart(r)
  \/ Quiet /\ \E r \in DOMAIN req : DemoStep(r)
  \/ Quiet /\ \E r \in DOMAIN req, ok \in BOOLEAN : ProviderSetup(r, ok)
  \/ Quiet /\ \E r \in DOMAIN req, c \in BOOLEAN : ProviderChunk(r, c)
  \/ Quiet /\ \E r \in DOMAIN req : ProviderEnd(r)
  \/ Quiet /\ \E r \in DOMAIN req : ProviderFail(r)

SpecPages == InitPages /\ [][NextPages]_vars

(***************************************************************************)
(* The credential vault on its own: specification SpecVault                *)
(***************************************************************************)

\* The plaintexts handed to encryptApiKey: keys as the login passes them, a
\* one-letter text and the empty text.
VaultPlaintexts == {"", "x", "sk-mara", "sk-baru"}

\* One plaintext waits in the first slot; the process runs under one of the
\* two secrets.
InitVault ==
  /\ env \in { [Environment(FALSE) EXCEPT !.APP_SECRET = secret] :
                 secret \in {CurrentSecret, FormerSecret} }
  /\ running = TRUE
  /\ now = 0
  /\ memRate = EmptyMap
  /\ rateLog = EmptyMap
  /\ sessionKeys = EmptyMap
  /\ sessionsSet = {}
  /\ tokenSeq = 0
  /\ issued = EmptyMap
  /\ translationCache = EmptyMap
  /\ cacheSource = EmptyMap
  /\ \E plain \in VaultPlaintexts :
       req = [r \in Reqs |-> IF r = 1 THEN [IdleReq EXCEPT !.pc = "plain", !.body = Str(plain)]
                             ELSE IdleReq]
  /\ arrivals = 0
  /\ client = NoClient

\* encryptApiKey(plain): the blob, kept as it was made (rec) and as it will be
\* presented to decryptApiKey (apiKeyEnc).
VaultSeal(r, iv) ==
  /\ req[r].pc = "plain"
  /\ LET enc == encryptApiKey(req[r].body.str, env.APP_SECRET, iv).val
     IN  req' = [req EXCEPT ![r].pc = "sealed", ![r].rec = enc, ![r].apiKeyEnc = enc]
  /\ UNCHANGED <<client, env, running, now, memRate, rateLog, sessionKeys, sessionsSet, tokenSeq, issued,
                 translationCache, cacheSource, arrivals>>

\* One part of the blob is changed before it comes back: the iv, a byte of the
\* ciphertext, or a byte of the tag.
VaultModify(r, part) ==
  /\ req[r].pc = "sealed"
  /\ req[r].apiKeyEnc = req[r].rec
  /\ LET enc == req[r].apiKeyEnc
         other == CHOOSE iv \in RandomIvs : iv # enc.iv
     IN  req' = [req EXCEPT ![r].apiKeyEnc =
           IF part = "iv" THEN [enc EXCEPT !.iv = other]
           ELSE IF part = "ciphertext" THEN [enc EXCEPT !.ct.plain = ModifiedText(@)]
           ELSE [enc EXCEPT !.tag.ciphertext.plain = ModifiedText(@)]]
  /\ UNCHANGED <<client, env, running, now, memRate, rateLog, sessionKeys, sessionsSet, tokenSeq, issued,
                 translationCache, cacheSource, arrivals>>

\* The tag of the blob is cut to its first n bytes before it comes back.
VaultCutTag(r, n) ==
  /\ req[r].pc = "sealed"
  /\ req[r].apiKeyEnc = req[r].rec
  /\ req' = [req EXCEPT ![r].apiKeyEnc.tag = TagPrefix(@, n)]
  /\ UNCHANGED <<client, env, running, now, memRate, rateLog, sessionKeys, sessionsSet, tokenSeq, issued,
                 translationCache, cacheSource, arrivals>>

\* The process is started again with another APP_SECRET.
VaultRestart(secret) ==
  /\ \E r \in DOMAIN req : req[r].pc = "sealed"
  /\ secret # env.APP_SECRET
  /\ env' = [env EXCEPT !.APP_SECRET = secret]
  /\ UNCHANGED <<client, running, now, memRate, rateLog, sessionKeys, sessionsSet, tokenSeq, issued,
                 translationCache, cacheSource, req, arrivals>>

\* decryptApiKey(enc): the plaintext, or the throw.
VaultOpen(r) ==
  /\ req[r].pc = "sealed"
  /\ req' = [req EXCEPT ![r].pc = "opened",
                        ![r].json = decryptApiKey(req[r].apiKeyEnc, env.APP_SECRET)]
  /\ UNCHANGED <<client, env, running, now, memRate, rateLog, sessionKeys, sessionsSet, tokenSeq, issued,
                 translationCache, cacheSource, arrivals>>

NextVault ==
  \/ \E r \in DOMAIN req, iv \in RandomIvs : VaultSeal(r, iv)
  \/ \E r \in DOMAIN req, part \in {"iv", "ciphertext", "tag"} : VaultModify(r, part)
  \/ \E r \in DOMAIN req, n \in 1..15 : VaultCutTag(r, n)
  \/ \E secret \in {CurrentSecret, FormerSecret} : VaultRestart(secret)
  \/ \E r \in DOMAIN req : VaultOpen(r)

SpecVault == InitVault /\ [][NextVault]_vars

\* --------------------------------------------------------------------
\* The quota of clients and routes: the in-memory limiter in front of
\* requireAuth and of the login, for clients that differ in their
\* X-Forwarded-For header and their peer address.

MaxQuotaArrivals == 3

\* xf.split(',')[0]
RECURSIVE UpToComma(_, _)
UpToComma(s, i) ==
  IF i > Len(s) \/ CharAt(s, i) = "," THEN ""
  ELSE CharAt(s, i) \o UpToComma(s, i + 1)

\* The client identity of a request: the first X-Forwarded-For entry,
\* trimmed, else the peer address, else 'unknown'.
getClientIp(xf, ip) ==
  IF IsString(xf) /\ Len(xf.str) > 0 THEN Trim(UpToComma(xf.str, 1))
  ELSE IF ip # "" THEN ip
  ELSE "unknown"

\* Callers: a direct one, two behind a proxy (one with a chain of two
\* addresses), and one whose peer address is not known.
QuotaClients ==
  { [xf |-> Undefined, ip |-> "10.0.0.9"],
    [xf |-> Str("10.0.0.1"), ip |-> "10.0.0.9"],
    [xf |-> Str(" 10.0.0.2 , 10.0.0.1"), ip |-> "10.0.0.9"],
    [xf |-> Str(""), ip |-> ""] }

\* Translate requests without a token, with a token signed under another
\* secret, and with a good token (and a body the handler refuses).
QuotaRequests ==
  { [authorization |-> NoHeader, body |-> Hello],
    [authorization |-> Bearer([SignedA EXCEPT !.sig = signStateless(SignedA.payload, FormerSecret)]),
     body |-> Hello],
    [authorization |-> Bearer(SignedA),
     body |-> [pageText |-> Str("hello"), targetLanguage |-> Undefined, force |-> FALSE]] }

InitQuota ==
  /\ env = Environment(FALSE)
  /\ running = TRUE
  /\ now = 0
  /\ tokenSeq = 0
  /\ issued = IssuedEarlier({SignedA, SignedB})
  /\ memRate = NearlyExhaustedRate
  /\ rateLog = [k \in DOMAIN memRate |->
                 [start |-> 0, n |-> memRate[k].count, passed |-> memRate[k].count]]
  /\ sessionKeys = EmptyMap
  /\ sessionsSet = {}
  /\ translationCache = EmptyMap
  /\ cacheSource = EmptyMap
  /\ req = [r \in Reqs |-> IdleReq]
  /\ arrivals = 0
  /\ client = NoClient

NextQuota ==
  \/ \E r \in DOMAIN req : Retire(r)
  \/ /\ NoneInFlight
     /\ arrivals < MaxQuotaArrivals
     /\ Counted
     /\ \E r \in DOMAIN req, c \in QuotaClients, i \in QuotaRequests :
          Arrive(r, "translate", getClientIp(c.xf, c.ip), i.authorization, i.body)
  \/ /\ NoneInFlight
     /\ arrivals < MaxQuotaArrivals
     /\ Counted
     /\ \E r \in DOMAIN req, c \in QuotaClients :
          Arrive(r, "login", getClientIp(c.xf, c.ip), NoHeader, EmptyLogin)
  \/ Quiet /\ \E r \in DOMAIN req : RateLimitMemory(r)
  \/ Quiet /\ \E r \in DOMAIN req : RequireAuth(r)
  \/ Quiet /\ \E r \in DOMAIN req : TranslateStart(r)
  \/ Quiet /\ \E r \in DOMAIN req, iv \in RandomIvs : LoginStart(r, iv)

SpecQuota == InitQuota /\ [][NextQuota]_vars

\* --------------------------------------------------------------------
\* Who a request is: logins under usernames typed in several ways, with the
\* password of baru configured or left empty, and translations under the
\* tokens handed out (and under forgeries of them), one request after the
\* other.

MaxIdentityArrivals == 3

IdentityLogins ==
  { LoginBody(" Baru ", "pw-baru", "sk-baru"), LoginBody("MARA", "pw-mara", "sk-mara"),
    LoginBody("eve", "pw-baru", "sk-baru"), LoginBody("baru", "", "sk-baru"),
    LoginBody("Baru", "guess", "sk-baru") }

InitIdentity ==
  InitStore({TokA},
            { [Environment(redis) EXCEPT !.AUTH_BARU_PASSWORD = pw] :
                redis \in BOOLEAN, pw \in {"pw-baru", ""} })

NextIdentity ==
  \/ \E r \in DOMAIN req : Retire(r)
  \/ /\ NoneInFlight
     /\ arrivals < MaxIdentityArrivals
     /\ Counted
     /\ \E r \in DOMAIN req, ip \in ClientIps, b \in IdentityLogins :
          Arrive(r, "login", ip, NoHeader, b)
  \/ /\ NoneInFlight
     /\ arrivals < MaxIdentityArrivals
     /\ Counted
     /\ \E r \in DOMAIN req, ip \in ClientIps, t \in DOMAIN issued :
          \E f \in {t} \cup Forgeries(t) :
            Arrive(r, "translate", ip, Bearer(f), Hello)
  \/ Quiet /\ \E r \in DOMAIN req : RateLimitMemory(r)
  \/ Quiet /\ \E r \in DOMAIN req, o \in LimitPasses : RateLimitDistributed(r, o)
  \/ Quiet /\ \E r \in DOMAIN req : RequireAuth(r)
  \/ Quiet /\ \E r \in DOMAIN req, iv \in {"iv2"} : LoginStart(r, iv)
  \/ Quiet /\ \E r \in DOMAIN req : PruneSmembers(r)
  \/ Quiet /\ \E r \in DOMAIN req : \E t \in req[r].tokens : PruneExists(r, t)
  \/ Quiet /\ \E r \in DOMAIN req : LoginScard(r)
  \/ Quiet /\ \E r \in DOMAIN req : LoginSet(r)
  \/ Quiet /\ \E r \in DOMAIN req : LoginSadd(r)
  \/ Quiet /\ \E r \in DOMAIN req : TranslateStart(r)
  \/ Quiet /\ \E r \in DOMAIN req, ok \in BOOLEAN : ProviderSetup(r, ok)
  \/ Quiet /\ \E r \in DOMAIN req, c \in BOOLEAN : ProviderChunk(r, c)
  \/ Quiet /\ \E r \in DOMAIN req : ProviderEnd(r)

SpecIdentity == InitIdentity /\ [][NextIdentity]_vars

\* --------------------------------------------------------------------
\* Progress of the translate handler.  The requests of Spec, one after the
\* other; Node's event loop runs every continuation that is ready (the
\* handler after requireAuth, the timer of the demo loop, the promise of the
\* provider call), and the provider's stream ends or fails after finitely
\* many chunks.

MaxLiveArrivals == 2

\* The requests of Spec and the one that goes through the demo text.
LiveRequests ==
  StreamRequests
    \cup [authorization : IF env.redis THEN {Bearer(TokC)} ELSE {}, body : {Hello}]

NextLive ==
  \/ \E r \in DOMAIN req : Retire(r)
  \/ /\ NoneInFlight
     /\ arrivals < MaxLiveArrivals
     /\ Counted
     /\ \E r \in DOMAIN req, ip \in ClientIps, i \in LiveRequests :
          Arrive(r, "translate", ip, i.authorization, i.body)
  \/ Quiet /\ \E r \in DOMAIN req : RateLimitMemory(r)
  \/ Quiet /\ \E r \in DOMAIN req, o \in LimitPasses : RateLimitDistributed(r, o)
  \/ Quiet /\ \E r \in DOMAIN req : RequireAuth(r)
  \/ Quiet /\ \E r \in DOMAIN req : TranslateStart(r)
  \/ Quiet /\ \E r \in DOMAIN req : DemoStep(r)
  \/ Quiet /\ \E r \in DOMAIN req, ok \in BOOLEAN : ProviderSetup(r, ok)
  \/ Quiet /\ \E r \in DOMAIN req, c \in BOOLEAN : ProviderChunk(r, c)
  \/ Quiet /\ \E r \in DOMAIN req : ProviderEnd(r)
  \/ Quiet /\ \E r \in DOMAIN req : ProviderFail(r)
  \/ Quiet /\ \E r \in DOMAIN req : Disconnect(r)

FairLive ==
  \A r \in Reqs :
    /\ WF_vars(Retire(r))
    /\ WF_vars(Quiet /\ TranslateStart(r))
    /\ WF_vars(Quiet /\ DemoStep(r))
    /\ WF_vars(Quiet /\ \E ok \in BOOLEAN : ProviderSetup(r, ok))
    /\ WF_vars(Quiet /\ (ProviderEnd(r) \/ ProviderFail(r)))

SpecLive == InitPages /\ [][NextLive]_vars /\ FairLive

\* --------------------------------------------------------------------
\* The browser: TranslationService.translateWithStream and the
\* TranslationPanel that calls it.  The server is seen from outside: what
\* fetch comes back with, and the bytes and the end of the response body.

NumCalls == 2
MaxRead == 3

Calls == 1..NumCalls

Newline == [newline |-> TRUE]

\* `data: ${JSON.stringify(event)}\n\n` as the server writes it, in the
\* pieces between which a network chunk can end: the two halves of the data
\* line and the two newlines.
SseFrame(event) ==
  <<[data |-> 1, event |-> event], [data |-> 2, event |-> event], Newline, Newline>>

RECURSIVE SseBody(_)
SseBody(events) ==
  IF events = <<>> THEN <<>>
  ELSE SseFrame(Head(events)) \o SseBody(Tail(events))

\* The event streams a response body can carry: a translation in fragments,
\* a cached translation, a failure after a fragment, and two bodies that stop
\* without a terminal event (after a fragment, and at once).
ServerStreams ==
  { <<ContentEvent("Hal", FALSE), ContentEvent("lo", FALSE), ContentEvent("", TRUE)>>,
    <<ContentEvent("Hallo", TRUE)>>,
    <<ContentEvent("Hal", FALSE), ErrorEvent(TranslationFailed)>>,
    <<ContentEvent("Hal", FALSE)>>,
    <<>> }

\* What `await fetch(...)` comes back with, and how the body ends after its
\* bytes: the stream is closed (done), or reading it fails.
ServerResponses ==
  { [kind |-> "rejected", message |-> "Failed to fetch"],
    [kind |-> "status", status |-> 401, statusText |-> "Unauthorized"],
    [kind |-> "status", status |-> 429, statusText |-> "Too Many Requests"] }
  \cup [kind : {"stream"}, events : ServerStreams, end : {"close", "error"}]

IdleCall ==
  [pc |-> "idle", aborted |-> FALSE, wire |-> <<>>, end |-> "close", buffer |-> <<>>,
   \* history of the callbacks
   onData |-> <<>>, onComplete |-> 0, onError |-> 0, outcome |-> "none"]

\* handleTranslationData
handleTranslationData(cl, event) ==
  IF "error" \in DOMAIN event THEN
    IF event.error # "" THEN [cl EXCEPT !.error = event.error]
    ELSE IF event.isDone THEN [cl EXCEPT !.isTranslating = FALSE] ELSE cl
  ELSE
    LET shown == IF event.content = "" THEN cl
                 ELSE IF event.isDone THEN [cl EXCEPT !.translatedText = event.content]
                 ELSE [cl EXCEPT !.translatedText = @ \o event.content]
    IN  IF event.isDone THEN [shown EXCEPT !.isTranslating = FALSE] ELSE shown

\* handleTranslationError (the two letters of the prefix outside ASCII stand
\* as their escapes \uXXXX)
handleTranslationError(cl, message) ==
  [cl EXCEPT !.error = "Chyba p\\u0159i p\\u0159ekladu: " \o message,
             !.isTranslating = FALSE]

\* handleTranslationComplete
handleTranslationComplete(cl) == [cl EXCEPT !.isTranslating = FALSE]

\* finally { if (this.currentAbortController === abortController) ... = null }
\* and the end of the call.
CallReturns(cl, c, outcome) ==
  [cl EXCEPT !.calls[c].pc = "returned",
             !.calls[c].outcome = outcome,
             !.currentAbortController = IF @ = c THEN 0 ELSE @]

\* onData(event)
CallOnData(cl, c, event) ==
  handleTranslationData([cl EXCEPT !.calls[c].onData = Append(@, event)], event)

\* onComplete?.(); return
CallOnComplete(cl, c) ==
  CallReturns(handleTranslationComplete([cl EXCEPT !.calls[c].onComplete = @ + 1]),
              c, "complete")

\* catch (error): onError?.(error), unless it is an AbortError
CallOnError(cl, c, message) ==
  CallReturns(handleTranslationError([cl EXCEPT !.calls[c].onError = @ + 1], message),
              c, "error")

\* The end of the body without a terminal event: if (done) break, and the
\* call returns.
StreamDone(cl, c) == CallReturns(cl, c, "silent")

\* buffer.split('\n'): the complete lines and the rest that stays in buffer.
RECURSIVE SplitLines(_, _, _)
SplitLines(atoms, lines, line) ==
  IF atoms = <<>> THEN [lines |-> lines, rest |-> line]
  ELSE IF Head(atoms) = Newline THEN SplitLines(Tail(atoms), Append(lines, line), <<>>)
  ELSE SplitLines(Tail(atoms), lines, Append(line, Head(atoms)))

\* A line of the body: nothing for an empty line or broken data, else the
\* event of JSON.parse(line.slice(6).trim()).
ParseLine(line) ==
  IF Len(line) = 2 /\ line[1].data = 1 /\ line[2].data = 2 /\ line[1].event = line[2].event
    THEN [ok |-> TRUE, event |-> line[1].event]
    ELSE [ok |-> FALSE]

\* for (const line of lines): onData for every event, and onComplete and the
\* return at the first terminal one.
RECURSIVE ProcessLines(_, _, _)
ProcessLines(cl, c, lines) ==
  IF lines = <<>> THEN cl
  ELSE LET parsed == ParseLine(Head(lines))
       IN  IF ~parsed.ok THEN ProcessLines(cl, c, Tail(lines))
           ELSE IF parsed.event.isDone THEN CallOnComplete(CallOnData(cl, c, parsed.event), c)
           ELSE ProcessLines(CallOnData(cl, c, parsed.event), c, Tail(lines))

\* cancelCurrentStream()
cancelCurrentStream(cl) ==
  IF cl.currentAbortController \in Calls
    THEN [cl EXCEPT !.calls[cl.currentAbortController].aborted = TRUE,
                    !.currentAbortController = 0]
    ELSE [cl EXCEPT !.currentAbortController = 0]

\* translateWithStream up to `await fetch(...)`.
translateWithStream(cl, c) ==
  [cancelCurrentStream(cl) EXCEPT !.currentAbortController = c,
                                  !.calls[c] = [IdleCall EXCEPT !.pc = "fetching"]]

ServerUnchanged ==
  UNCHANGED <<env, running, now, memRate, rateLog, sessionKeys, sessionsSet, tokenSeq, issued,
              translationCache, cacheSource, req, arrivals>>

\* startTranslation: the guard on isTranslating, the state of the panel, and
\* the call of the service.
StartTranslation(c) ==
  /\ client.calls[c].pc = "idle"
  /\ \A d \in Calls : d < c => client.calls[d].pc # "idle"
  /\ ~client.isTranslating
  /\ client' = translateWithStream([client EXCEPT !.isTranslating = TRUE, !.error = "",
                                                  !.translatedText = ""], c)
  /\ ServerUnchanged

\* Another stream is started on the service (summarizeWithStream): it
\* cancels the current stream, if there is one, and puts its own controller
\* in its place.
LaterCall ==
  /\ client' = [cancelCurrentStream(client) EXCEPT !.currentAbortController = NumCalls + 1]
  /\ ServerUnchanged

\* The later stream ends: its finally sets currentAbortController back to
\* null when the controller is still its own.
LaterCallReturns ==
  /\ client.currentAbortController = NumCalls + 1
  /\ client' = [client EXCEPT !.currentAbortController = 0]
  /\ ServerUnchanged

\* translationService.cancelCurrentStream() called on its own: the current
\* stream is aborted and no other takes its place.
CancelCurrentStream ==
  /\ client' = cancelCurrentStream(client)
  /\ ServerUnchanged

\* await fetch(...) settles.
FetchSettles(c, response) ==
  /\ client.calls[c].pc = "fetching"
  /\ client' =
       IF client.calls[c].aborted THEN CallReturns(client, c, "aborted")
       ELSE IF response.kind = "rejected" THEN CallOnError(client, c, response.message)
       ELSE IF response.kind = "status" THEN
         CallOnError(client, c, "HTTP " \o NatToString(response.status) \o ": "
                                  \o response.statusText)
       ELSE [client EXCEPT !.calls[c].pc = "reading",
                           !.calls[c].wire = SseBody(response.events),
                           !.calls[c].end = response.end]
  /\ ServerUnchanged

\* await reader.read() settles with the next n pieces of the body, with done,
\* or with an error; then the lines of the buffer are processed.
Read(c, n) ==
  /\ client.calls[c].pc = "reading"
  /\ n <= Max(1, Len(client.calls[c].wire))
  /\ LET call == client.calls[c]
         split == SplitLines(call.buffer \o SubSeq(call.wire, 1, n), <<>>, <<>>)
     IN  client' =
           IF call.aborted THEN CallReturns(client, c, "aborted")
           ELSE IF call.wire = <<>> THEN
             IF call.end = "error" THEN CallOnError(client, c, "network error")
             ELSE StreamDone(client, c)
           ELSE ProcessLines([client EXCEPT !.calls[c].wire = SubSeq(@, n + 1, Len(@)),
                                            !.calls[c].buffer = split.rest],
                             c, split.lines)
  /\ ServerUnchanged

InitClient ==
  /\ env = Environment(FALSE)
  /\ running = TRUE
  /\ now = 0
  /\ memRate = EmptyMap
  /\ rateLog = EmptyMap
  /\ sessionKeys = EmptyMap
  /\ sessionsSet = {}
  /\ tokenSeq = 0
  /\ issued = EmptyMap
  /\ translationCache = EmptyMap
  /\ cacheSource = EmptyMap
  /\ req = [r \in Reqs |-> IdleReq]
  /\ arrivals = 0
  /\ client = [calls |-> [c \in Calls |-> IdleCall], currentAbortController |-> 0,
               isTranslating |-> FALSE, error |-> "", translatedText |-> ""]

NextClient ==
  \/ \E c \in Calls : StartTranslation(c)
  \/ LaterCall
  \/ LaterCallReturns
  \/ CancelCurrentStream
  \/ \E c \in Calls, response \in ServerResponses : FetchSettles(c, response)
  \/ \E c \in Calls, n \in 1..MaxRead : Read(c, n)

\* The browser runs every continuation that is ready, and the network lets
\* every fetch and every read settle.
FairClient ==
  \A c \in Calls :
    /\ WF_vars(\E response \in ServerResponses : FetchSettles(c, response))
    /\ WF_vars(\E n \in 1..MaxRead : Read(c, n))

SpecClient == InitClient /\ [][NextClient]_vars /\ FairClient

(***************************************************************************)
(* Properties                                                              *)
(***************************************************************************)

\* The sessions whose key is in Redis and has not run out.
LiveSessions == {t \in DOMAIN sessionKeys : RedisExists(sessionKeys, t, now)}

\* The events a caller sees for the fragments the provider delivered.
FragmentEvents(fragments) ==
  [i \in 1..Len(fragments) |-> ContentEvent(fragments[i], FALSE)]

\* The events of a response before its terminal event.
NonTerminal(event) == ~event.isDone

NonTerminals(events) == SelectSeq(events, NonTerminal)

\* The positions of the terminal events in a response.
Terminals(events) == {i \in 1..Len(events) : events[i].isDone}

\* C1 (Spec): cache isolation between users.  A request that is answered from
\* the cache is answered from an entry written by a request of the same user,
\* whatever the page text and target language of the two requests.
C1_CacheIsolation ==
  \A r \in DOMAIN req :
    req[r].cacheHit =>
      /\ Has(cacheSource, req[r].cacheKey)
      /\ cacheSource[req[r].cacheKey].username = req[r].auth.username

\* baru asks, without force, for the page and language mara's entry holds,
\* and is sent on to the provider.
C1_Witness ==
  \E r \in DOMAIN req :
    /\ req[r].auth.username = "baru"
    /\ req[r].pc = "setup"
    /\ ~req[r].body.force
    /\ Has(translationCache,
           UserCacheKey("mara", req[r].body.pageText, req[r].body.targetLanguage))
    /\ ~Has(translationCache, req[r].cacheKey)

\* C2 (SpecAuthSeq): sequential session cap with Redis.  When logins and
\* logouts do not overlap, the live sessions never number more than
\* MAX_ACTIVE_SESSIONS, and a login with valid credentials ends in one of two
\* ways: with 200 and a live session of its own, or with the capacity error
\* 429 while MAX_ACTIVE_SESSIONS sessions are live (so a valid login fails
\* exactly when the store is full, and succeeds again after a logout).
C2_SequentialCap ==
  env.redis =>
    /\ Cardinality(LiveSessions) <= MAX_ACTIVE_SESSIONS
    /\ \A r \in DOMAIN req :
         ( /\ req[r].route = "login"
           /\ req[r].pc = "done"
           /\ LoginRefusal(req[r].body, env).status = 0 ) =>
         \/ /\ req[r].status = 200
            /\ req[r].json.token \in LiveSessions
         \/ /\ req[r].status = 429
            /\ req[r].json.error = "Maximum 2 active users already logged in"
            /\ Cardinality(LiveSessions) = MAX_ACTIVE_SESSIONS

\* Both sessions were live at the start; one has logged out since (no time
\* has passed), and a login has just taken its place.
C2_Witness ==
  /\ env.redis
  /\ now = 0
  /\ Cardinality(LiveSessions) = MAX_ACTIVE_SESSIONS
  /\ {TokA, TokB} \ LiveSessions # {}
  /\ \E r \in DOMAIN req :
       /\ req[r].route = "login"
       /\ req[r].pc = "done"
       /\ req[r].status = 200
       /\ req[r].json.token \in LiveSessions

\* C3 (SpecAuth): bounded overshoot under overlapping logins.  With Redis,
\* the live sessions number at most MAX_ACTIVE_SESSIONS + 1 in every
\* interleaving of login requests.
C3_BoundedOvershoot ==
  env.redis => Cardinality(LiveSessions) <= MAX_ACTIVE_SESSIONS + 1

\* C4 (SpecRate): the in-memory window.  Of the requests one client makes on
\* one route inside one window (the window opens with the first request at or
\* after the end of the window before), requests 1..L are passed on and
\* request L+1 is answered with 429; the request that opens a window leaves
\* the stored count at 1 and resetAt one window ahead.
C4_RateWindow ==
  \A r \in DOMAIN req :
    req[r].seq > 0 =>
      LET L == RouteLimiter(req[r].route).limit
          W == parseWindowToMs(RouteLimiter(req[r].route).window)
      IN  /\ req[r].seq <= L => ~req[r].limited /\ req[r].nextCalls = 1
          /\ req[r].seq = L + 1 =>
               req[r].limited /\ req[r].status = 429 /\ req[r].nextCalls = 0
          /\ req[r].seq = 1 =>
               req[r].rec = [resetAt |-> req[r].at + W, count |-> 1]

\* In a window that opened when the window before had run out, the client's
\* request L+1 on the translate route is denied.
C4_Witness ==
  \E r \in DOMAIN req :
    /\ req[r].route = "translate"
    /\ req[r].seq = RouteLimiter("translate").limit + 1
    /\ req[r].limited
    /\ req[r].at > parseWindowToMs(RouteLimiter("translate").window)

\* C5 (SpecRate): rate-limit response metadata.  Every request the limiter
\* has given its verdict on, allowed or denied, first of its window or later,
\* carries both the remaining-quota and the reset-time header.
C5_HeadersAlways ==
  \A r \in DOMAIN req :
    (req[r].pc \notin {"idle", "limiter"} /\ ~req[r].limiterThrew) =>
      {"X-RateLimit-Remaining", "X-RateLimit-Reset"} \subseteq DOMAIN req[r].headers

\* C6 (Spec): a denial by the limiter stops the request.  A denied request is
\* answered 429 and is finished: next() was not called, no session was looked
\* up, no stream was opened, no event written, the provider was not called,
\* and the step that denies it leaves the cache and the session store as they
\* were.
C6_DenialStops ==
  /\ [](\A r \in DOMAIN req :
          req[r].limited =>
            /\ req[r].status = 429
            /\ req[r].json = [error |-> RateLimitExceeded]
            /\ req[r].pc = "done"
            /\ req[r].nextCalls = 0
            /\ req[r].lookups = 0
            /\ req[r].auth = NoAuth
            /\ req[r].events = <<>>
            /\ req[r].providerCalls = 0
            /\ req[r].cacheWrites = 0)
  /\ [][(\E r \in DOMAIN req : ~req[r].limited /\ req'[r].limited) =>
          UNCHANGED <<translationCache, cacheSource, sessionKeys, sessionsSet>>]_vars

\* A request with a valid token is denied while the cache holds an entry.
C6_Witness ==
  \E r \in DOMAIN req :
    /\ req[r].limited
    /\ getBearerToken(req[r].authorization).ok
    /\ getSession(getBearerToken(req[r].authorization).val).ok
    /\ translationCache # EmptyMap

\* C7 (Spec): the limiter fails open.  A request whose limiter check threw is
\* passed to the next handler exactly once, and is answered neither with 429
\* nor with a server error.
C7_FailOpen ==
  \A r \in DOMAIN req :
    req[r].limiterThrew =>
      /\ req[r].nextCalls = 1
      /\ ~req[r].limited
      /\ req[r].status \notin {429, 500}

\* A request whose limiter check threw is being streamed from the provider.
C7_Witness ==
  \E r \in DOMAIN req :
    /\ req[r].limiterThrew
    /\ req[r].pc = "streaming"
    /\ req[r].events # <<>>

\* C8 (Spec): exactly one terminal event per streamed request.  No response
\* holds an event after a terminal one, and a request whose stream was opened
\* (the 200 head was written) and whose handler is through has exactly one
\* terminal event.
C8_OneTerminal ==
  \A r \in DOMAIN req :
    /\ Cardinality(Terminals(req[r].events)) <= 1
    /\ Terminals(req[r].events) \subseteq {Len(req[r].events)}
    /\ (req[r].status = 200 /\ req[r].pc \in {"done", "crashed"}) =>
         Cardinality(Terminals(req[r].events)) = 1

\* C9 (Spec): a provider failure leaves the cache untouched.  A request whose
\* provider failed, in setup or after k fragments, has sent exactly those k
\* fragments as non-terminal events and then one terminal event with the
\* error, has written nothing to the cache, and the step in which it fails
\* leaves the cache as it was.
C9_FailureKeepsCache ==
  /\ [](\A r \in DOMAIN req :
          req[r].failed =>
            /\ req[r].events = FragmentEvents(req[r].fragments)
                                 \o <<ErrorEvent(TranslationFailed)>>
            /\ req[r].pc = "done"
            /\ req[r].cacheWrites = 0)
  /\ [][(\E r \in DOMAIN req : ~req[r].failed /\ req'[r].failed) =>
          UNCHANGED <<translationCache, cacheSource>>]_vars

\* The provider failed after two fragments of a forced translation whose key
\* holds an earlier translation.
C9_Witness ==
  \E r \in DOMAIN req :
    /\ req[r].failed
    /\ Len(req[r].fragments) = 2
    /\ Has(translationCache, req[r].cacheKey)

\* C10 (Spec): cancellation.  Once the caller of a request has gone away, no
\* further round of the provider loop (or of the demo loop) runs for it and
\* it writes nothing to the cache.
C10_Cancellation ==
  \A r \in DOMAIN req :
    ~req[r].connected =>
      /\ req[r].roundsAfterClose = 0
      /\ req[r].cacheWrites = 0

\* C11 (Spec): at most one paid call per unique input.  Of the translate
\* requests without force for one key, at most one provider call has run to
\* its end and filled the entry since the cache was last cleared, also when
\* the requests overlap.
C11_OnePaidCall ==
  \A k \in DOMAIN cacheSource : cacheSource[k].paid <= 1

\* C12 (SpecPages): a cache hit serves only the result of an identical
\* request.  A request answered from the cache is answered with the text that
\* a request of the same user, with the same page text and the same target
\* language, has produced.
C12_HitIsIdentical ==
  \A r \in DOMAIN req :
    req[r].cacheHit =>
      /\ cacheSource[req[r].cacheKey].username = req[r].auth.username
      /\ cacheSource[req[r].cacheKey].pageText = req[r].body.pageText
      /\ cacheSource[req[r].cacheKey].targetLanguage = req[r].body.targetLanguage

\* C13 (Spec): the shape of a cache hit.  A request without force that finds
\* an entry for its key takes the cache-hit path; its response is one event,
\* terminal, with the whole cached text; the provider is not called and the
\* cache is left as it was.
C13_CacheHitShape ==
  /\ [](\A r \in DOMAIN req :
          req[r].cacheHit =>
            /\ req[r].status = 200
            /\ req[r].pc = "done"
            /\ req[r].events = <<ContentEvent(translationCache[req[r].cacheKey], TRUE)>>
            /\ req[r].providerCalls = 0
            /\ req[r].cacheWrites = 0)
  /\ [][\A r \in DOMAIN req :
          ( /\ req[r].pc = "translate"
            /\ req'[r] # req[r]
            /\ Truthy(req[r].body.pageText)
            /\ IsString(req[r].body.pageText)
            /\ Truthy(req[r].body.targetLanguage)
            /\ ~req[r].body.force
            /\ Has(translationCache,
                   req[r].auth.username \o ":"
                     \o getCacheKey(req[r].body.pageText, req[r].body.targetLanguage)) ) =>
          /\ req'[r].cacheHit
          /\ UNCHANGED <<translationCache, cacheSource>>]_vars

\* A request is answered from the cache with a text the provider produced.
C13_Witness ==
  \E r \in DOMAIN req :
    /\ req[r].cacheHit
    /\ ~req[r].body.force
    /\ translationCache[req[r].cacheKey] = "Hallo"

\* C14 (Spec): force bypasses and overwrites.  A request with force=true is
\* never answered from the cache, and when it has reached Done (its stream
\* ended without failure) the entry of its key is the text it has just
\* produced: no earlier value is left under the key.
C14_ForceOverwrites ==
  \A r \in DOMAIN req :
    (req[r].body # NoJson /\ req[r].body.force) =>
      /\ ~req[r].cacheHit
      /\ (req[r].pc = "done" /\ req[r].status = 200 /\ ~req[r].failed) =>
           /\ Has(translationCache, req[r].cacheKey) =>
                translationCache[req[r].cacheKey] = req[r].fullTranslation
           /\ req[r].fullTranslation # "" => Has(translationCache, req[r].cacheKey)

\* C15 (Spec): chunk order within one stream.  At every moment of a request
\* on the provider path, its non-terminal events carry the fragments received
\* from the provider so far, one event per fragment, in the order received.
C15_ChunkOrder ==
  \A r \in DOMAIN req :
    req[r].providerCalls > 0 =>
      NonTerminals(req[r].events) = FragmentEvents(req[r].fragments)

\* Two fragments have been received and forwarded; the stream is still open.
C15_Witness ==
  \E r \in DOMAIN req :
    /\ req[r].pc = "streaming"
    /\ req[r].fragments = <<"Hal", "lo">>
    /\ Len(req[r].events) = 2

\* C16 (SpecLive): the NoCredential path.  A request whose stream was opened for
\* a session without a valid credential never calls the provider and never
\* fails; once it is through, its events are the pieces of the demo text of
\* its page text and target language followed by one terminal event, the
\* demo text is not empty, and the cache holds it under the request's key.
C16_DemoPath ==
  \A r \in DOMAIN req :
    ( /\ req[r].status = 200
      /\ ~req[r].cacheHit
      /\ ~hasValidUserApiKey(req[r].auth.apiKeyEnc, env.APP_SECRET) ) =>
      /\ req[r].providerCalls = 0
      /\ req[r].pc \in {"demo", "done"}
      /\ req[r].pc = "done" =>
           /\ req[r].demoTranslation
                = demoTranslation(req[r].body.pageText, req[r].body.targetLanguage)
           /\ req[r].demoTranslation # ""
           /\ LET chunks == SplitSpaces(req[r].demoTranslation)
              IN  NonTerminals(req[r].events)
                    = [i \in 1..Len(chunks) |-> ContentEvent(chunks[i] \o " ", FALSE)]
           /\ Terminals(req[r].events) = {Len(req[r].events)}
           /\ req[r].cacheWrites = 1
           /\ translationCache[req[r].cacheKey] = req[r].demoTranslation

\* The token a request bears.
BearerOf(q) == getBearerToken(q.authorization).val

\* r is at requireAuth with a token a login has handed out.
AuthStep(r) ==
  /\ req[r].pc = "auth"
  /\ req'[r] # req[r]
  /\ getBearerToken(req[r].authorization).ok
  /\ BearerOf(req[r]) \in DOMAIN issued

\* The token's time to live has not run out.
Unexpired(token) == now < issued[token].at + SessionTtlMs

\* C17 (SpecAuthSeq): session round trip.  With Redis and without, a request
\* bearing a token that a login has handed out, made before a logout for the
\* token has completed and before the token's time to live is over, passes
\* requireAuth and carries the normalized username and the sealed key of that
\* login, and the token.
C17_SessionRoundTrip ==
  [][\A r \in DOMAIN req :
       ( /\ AuthStep(r)
         /\ ~issued[BearerOf(req[r])].loggedOut
         /\ Unexpired(BearerOf(req[r])) ) =>
       /\ req'[r].pc = req[r].route
       /\ req'[r].auth = [username |-> issued[BearerOf(req[r])].username,
                          apiKeyEnc |-> issued[BearerOf(req[r])].apiKeyEnc,
                          token |-> BearerOf(req[r])]]_vars

\* The round trip where the store hands back what it was given: without
\* Redis, and with a redis.get that answers with the text redis.set stored.
C17_StoredTextRoundTrip ==
  [][\A r \in DOMAIN req :
       ( /\ AuthStep(r)
         /\ ~(env.redis /\ env.automaticDeserialization)
         /\ ~issued[BearerOf(req[r])].loggedOut
         /\ Unexpired(BearerOf(req[r])) ) =>
       /\ req'[r].pc = req[r].route
       /\ req'[r].auth = [username |-> issued[BearerOf(req[r])].username,
                          apiKeyEnc |-> issued[BearerOf(req[r])].apiKeyEnc,
                          token |-> BearerOf(req[r])]]_vars

\* With Redis: /me is being answered for the token of a login that typed the
\* username as " Baru ".
C17_RoundTripSeen ==
  \E r \in DOMAIN req :
    /\ env.redis
    /\ req[r].pc = "me"
    /\ req[r].auth.username = "baru"
    /\ \E iv \in RandomIvs :
         req[r].auth.apiKeyEnc = encryptApiKey("sk-baru", CurrentSecret, iv).val
    /\ req[r].auth.token \notin {TokA, TokB, TokC}

\* C18 (SpecAuthSeq): a logout revokes with Redis.  Once a logout for a token
\* has completed, the token's key and its membership in the 'sessions' set
\* are gone for good (it no longer counts as active), and every request that
\* then comes to requireAuth with the token is answered 401.
C18_LogoutRevokes ==
  /\ [](env.redis =>
          \A t \in DOMAIN issued :
            issued[t].loggedOut => t \notin DOMAIN sessionKeys /\ t \notin sessionsSet)
  /\ [][\A r \in DOMAIN req :
          (env.redis /\ AuthStep(r) /\ issued[BearerOf(req[r])].loggedOut) =>
            /\ req'[r].pc = "done"
            /\ req'[r].status = 401
            /\ req'[r].auth = NoAuth]_vars

\* With Redis: a request bearing the token of a completed logout has been
\* answered 401 before the token's time to live was over.
C18_Witness ==
  \E r \in DOMAIN req :
    /\ env.redis
    /\ req[r].status = 401
    /\ req[r].lookups = 1
    /\ BearerOf(req[r]) \in DOMAIN issued
    /\ issued[BearerOf(req[r])].loggedOut
    /\ Unexpired(BearerOf(req[r]))

\* C19 (SpecAuthSeq): without Redis sessions are neither revoked nor capped.
\* A request bearing a token whose logout has completed still passes
\* requireAuth as long as the token's time to live is not over; the logout
\* changes nothing in the store; and a login with valid credentials is
\* always answered 200, never with the capacity error.
C19_StatelessNoRevoke ==
  /\ [](~env.redis =>
          /\ sessionKeys = EmptyMap
          /\ sessionsSet = {}
          /\ \A r \in DOMAIN req :
               ( /\ req[r].route = "login"
                 /\ req[r].pc = "done"
                 /\ LoginRefusal(req[r].body, env).status = 0 ) =>
               /\ req[r].status = 200
               /\ parseStatelessToken(req[r].json.token, env.APP_SECRET, now).ok)
  /\ [][\A r \in DOMAIN req :
          ( /\ ~env.redis
            /\ AuthStep(r)
            /\ issued[BearerOf(req[r])].loggedOut
            /\ Unexpired(BearerOf(req[r])) ) =>
          /\ req'[r].pc = req[r].route
          /\ req'[r].auth.username = issued[BearerOf(req[r])].username]_vars

\* Without Redis: /me is being answered for a token whose logout has
\* completed.
C19_Witness ==
  \E r \in DOMAIN req :
    /\ ~env.redis
    /\ req[r].pc = "me"
    /\ issued[req[r].auth.token].loggedOut

\* C20 (SpecFaults): logout always succeeds for the caller.  A logout request
\* whose token resolved is answered 200 with {ok: true}, whatever the store
\* did with the delete.
C20_LogoutSucceeds ==
  \A r \in DOMAIN req :
    (req[r].route = "logout" /\ req[r].pc = "done" /\ req[r].auth # NoAuth) =>
      /\ req[r].status = 200
      /\ req[r].json = [ok |-> TRUE]

\* No login stands behind the token any more: none has handed it out, its time
\* to live is over, or (with Redis) a logout for it has completed.
Unresolvable(token) ==
  \/ token \notin DOMAIN issued
  \/ ~Unexpired(token)
  \/ env.redis /\ issued[token].loggedOut

\* C21 (SpecFaults): requireAuth short-circuits.  A request to logout or /me
\* (translate-stream runs the same middleware) whose bearer token is absent,
\* is malformed or resolves to nothing is answered 401 and is finished with
\* that: no auth context is attached, its handler never runs, and the session
\* store, the cache and the provider are untouched.  A token resolves to
\* nothing when the lookup comes back without a session; no step of
\* requireAuth that stops the request, the lookup that never comes back among
\* them, attaches an auth context or touches the store or the cache.
C21_AuthShortCircuit ==
  /\ [][\A r \in DOMAIN req :
          ( /\ req[r].pc = "auth"
            /\ req'[r] # req[r]
            /\ req'[r].pc # req[r].route ) =>
          /\ req'[r].auth = NoAuth
          /\ UNCHANGED <<sessionKeys, sessionsSet, issued, translationCache, cacheSource>>]_vars
  /\ [][\A r \in DOMAIN req :
          ( /\ req[r].pc = "auth"
            /\ req'[r] # req[r]
            /\ req'[r].pc # "crashed"
            /\ \/ ~getBearerToken(req[r].authorization).ok
               \/ Unresolvable(BearerOf(req[r])) ) =>
          /\ req'[r].status = 401
          /\ req'[r].pc = "done"
          /\ req'[r].ended
          /\ req'[r].auth = NoAuth
          /\ UNCHANGED <<sessionKeys, sessionsSet, issued, translationCache, cacheSource>>]_vars
  /\ [](\A r \in DOMAIN req :
          req[r].route # "login" /\ req[r].status = 401 =>
            /\ req[r].pc = "done"
            /\ req[r].auth = NoAuth
            /\ req[r].providerCalls = 0
            /\ req[r].cacheWrites = 0
            /\ req[r].events = <<>>)

\* A logout with the token of a completed logout (with Redis), and a /me with
\* a forged signed token (without), have been answered 401.
C21_Witness ==
  \E r \in DOMAIN req :
    /\ req[r].status = 401
    /\ getBearerToken(req[r].authorization).ok
    /\ req[r].json.error = "Invalid or expired session"
    /\ \/ /\ env.redis
          /\ req[r].route = "logout"
          /\ BearerOf(req[r]) \in DOMAIN issued
          /\ issued[BearerOf(req[r])].loggedOut
       \/ /\ ~env.redis
          /\ req[r].route = "me"
          /\ BearerOf(req[r]) \notin DOMAIN issued

\* The login body of q has the three strings and a key that starts with sk-,
\* and names a username outside the allow-list, or an allowed username with
\* another password than the configured one.
FailsCredentials(q) ==
  /\ q.route = "login"
  /\ IsString(q.body.username) /\ IsString(q.body.password) /\ IsString(q.body.openaiApiKey)
  /\ StartsWithSk(Trim(q.body.openaiApiKey.str))
  /\ LET name == ToLowerCase(Trim(q.body.username.str))
     IN  \/ name \notin {"mara", "baru"}
         \/ name = "mara" /\ q.body.password.str # env.AUTH_MARA_PASSWORD
         \/ name = "baru" /\ q.body.password.str # env.AUTH_BARU_PASSWORD

\* C22 (SpecFaults): uniform login failure.  A login that passes the shape
\* checks and names an unknown username, and one that names an allowed username
\* with a wrong password, get the same response, status 401 with the body
\* {error: 'Invalid credentials'}, and neither changes the session store.
C22_UniformLoginFailure ==
  /\ [](\A r \in DOMAIN req :
          FailsCredentials(req[r]) /\ req[r].pc = "done" =>
            /\ req[r].status = 401
            /\ req[r].json = [error |-> "Invalid credentials"])
  /\ [][\A r \in DOMAIN req :
          FailsCredentials(req[r]) /\ req[r].pc = "login" /\ req'[r] # req[r] =>
            /\ req'[r].pc = "done"
            /\ UNCHANGED <<sessionKeys, sessionsSet, tokenSeq, issued>>]_vars

\* A login as " Eve" has been refused.
C22_Witness ==
  \E r \in DOMAIN req :
    /\ FailsCredentials(req[r])
    /\ req[r].pc = "done"
    /\ ToLowerCase(Trim(req[r].body.username.str)) = "eve"

\* A login as mara with a guessed password has been refused.
C22_WitnessWrongPassword ==
  \E r \in DOMAIN req :
    /\ FailsCredentials(req[r])
    /\ req[r].pc = "done"
    /\ ToLowerCase(Trim(req[r].body.username.str)) = "mara"

\* The header of q carries a signed token that is no token of a login but was
\* made of one by changing its payload or its signature.
BearsForgery(q) ==
  /\ getBearerToken(q.authorization).ok
  /\ BearerOf(q).kind = "signed"
  /\ BearerOf(q) \notin DOMAIN issued
  /\ \E t \in DOMAIN issued : BearerOf(q) \in Forgeries(t)

\* C23 (SpecFaults): stateless token integrity.  Without Redis, a token made of
\* a valid token by changing a part of its payload (user, exp, sealed key) or
\* its signature never resolves to a session; and every token that resolves
\* carries the signature that signStateless gives for its payload.
C23_TokenIntegrity ==
  /\ [][\A r \in DOMAIN req :
          ( /\ ~env.redis
            /\ req[r].pc = "auth"
            /\ req'[r] # req[r]
            /\ BearsForgery(req[r]) ) =>
          /\ req'[r].status = 401
          /\ req'[r].auth = NoAuth]_vars
  /\ [](\A r \in DOMAIN req :
          ~env.redis /\ req[r].auth # NoAuth =>
            /\ req[r].auth.token \in DOMAIN issued
            /\ req[r].auth.token.sig
                 = [key |-> env.APP_SECRET, payload |-> req[r].auth.token.payload]
            /\ req[r].auth.username = req[r].auth.token.payload.u
            /\ req[r].auth.apiKeyEnc = req[r].auth.token.payload.k)

\* Without Redis: a token that claims a later exp under the signature of the
\* token it was made of has been refused.
C23_Witness ==
  \E r \in DOMAIN req :
    /\ ~env.redis
    /\ BearsForgery(req[r])
    /\ req[r].status = 401
    /\ BearerOf(req[r]).payload.exp > BearerOf(req[r]).sig.payload.exp
    /\ BearerOf(req[r]).sig.key = env.APP_SECRET

\* C24 (SpecAuthSeq): session expiry.  With Redis and without, a token that a
\* login handed out at time t and that no logout has revoked does not resolve
\* at any time later than t + SESSION_TTL_SECONDS: requireAuth answers 401.
C24_SessionExpiry ==
  [][\A r \in DOMAIN req :
       ( /\ AuthStep(r)
         /\ ~issued[BearerOf(req[r])].loggedOut
         /\ now > issued[BearerOf(req[r])].at + SessionTtlMs ) =>
       /\ req'[r].status = 401
       /\ req'[r].json = [error |-> "Invalid or expired session"]
       /\ req'[r].auth = NoAuth]_vars

\* With Redis: a second after its time to live a token without logout has been
\* refused.
C24_Witness ==
  \E r \in DOMAIN req :
    /\ env.redis
    /\ req[r].status = 401
    /\ getBearerToken(req[r].authorization).ok
    /\ BearerOf(req[r]) \in DOMAIN issued
    /\ ~issued[BearerOf(req[r])].loggedOut
    /\ now = issued[BearerOf(req[r])].at + SessionTtlMs + 1000

\* Without Redis: the same for a signed token.
C24_WitnessStateless ==
  \E r \in DOMAIN req :
    /\ ~env.redis
    /\ req[r].status = 401
    /\ getBearerToken(req[r].authorization).ok
    /\ BearerOf(req[r]) \in DOMAIN issued
    /\ ~issued[BearerOf(req[r])].loggedOut
    /\ now = issued[BearerOf(req[r])].at + SessionTtlMs + 1000

\* C25 (SpecFaults): the notification never changes the login result.  A login
\* that got as far as the login mail is answered 200 with the token it made,
\* the normalized username and expiresIn = SESSION_TTL_SECONDS, whether the mail
\* was sent, failed, is still queued, or SMTP is not configured; queued or
\* awaited.
C25_MailKeepsLoginResult ==
  \A r \in DOMAIN req :
    ( /\ req[r].route = "login"
      /\ req[r].pc = "done"
      /\ req[r].mail \in {"queued", "sent", "failed", "unconfigured"} ) =>
    /\ req[r].status = 200
    /\ req[r].json.token = req[r].token
    /\ req[r].json.token \in DOMAIN issued
    /\ req[r].json.username = ToLowerCase(Trim(req[r].body.username.str))
    /\ req[r].json.expiresIn = SESSION_TTL_SECONDS

\* With EMAIL_DEBUG_SYNC=1 a login whose awaited mail failed has been answered
\* with its token.
C25_Witness ==
  \E r \in DOMAIN req :
    /\ env.EMAIL_DEBUG_SYNC
    /\ req[r].pc = "done"
    /\ req[r].mail = "failed"
    /\ req[r].status = 200
    /\ req[r].json.token = req[r].token

\* The mail that a login queued has failed after the answer.
C25_WitnessQueued ==
  \E r \in DOMAIN req :
    /\ ~env.EMAIL_DEBUG_SYNC
    /\ req[r].pc = "done"
    /\ req[r].mail = "failed"
    /\ req[r].status = 200

\* C26 (SpecFaults): the notification is never awaited.  In every configuration
\* no login waits with its response for the login mail to be sent.
C26_MailNeverAwaited ==
  \A r \in DOMAIN req : ~(req[r].mail = "awaited" /\ ~req[r].ended)

\* q is a translate request that passed requireAuth and whose body lacks
\* pageText or targetLanguage (undefined, or the empty string), or which came
\* without any body.
LacksField(q) ==
  /\ q.route = "translate"
  /\ q.auth # NoAuth
  /\ \/ q.body = Undefined
     \/ q.body.pageText \in {Undefined, Str("")}
     \/ q.body.targetLanguage \in {Undefined, Str("")}

\* C27 (SpecPages): validation errors precede the stream.  An authenticated
\* translate request without pageText or without targetLanguage is answered
\* 400 by the first step of its handler: no stream is opened, no event is
\* written, the provider is not called and the cache is unchanged.
C27_ValidationBeforeStream ==
  /\ [](\A r \in DOMAIN req :
          LacksField(req[r]) =>
            /\ req[r].pc \in {"translate", "done"}
            /\ req[r].events = <<>>
            /\ req[r].providerCalls = 0
            /\ req[r].cacheWrites = 0
            /\ ~req[r].cacheHit
            /\ req[r].pc = "done" =>
                 /\ req[r].status = 400
                 /\ req[r].json = [error |-> "Missing pageText or targetLanguage"])
  /\ [][\A r \in DOMAIN req :
          LacksField(req[r]) /\ req'[r] # req[r] /\ req[r].pc = "translate" =>
            /\ req'[r].pc = "done"
            /\ UNCHANGED <<translationCache, cacheSource>>]_vars

\* What holds of every such request, with or without a body: no stream is
\* opened for it, no event is written, the provider is not called and the
\* cache is unchanged; and the request whose body was parsed is answered 400.
C27_NoStreamWithoutFields ==
  /\ [](\A r \in DOMAIN req :
          LacksField(req[r]) =>
            /\ req[r].pc \in {"translate", "done", "crashed"}
            /\ req[r].status # 200
            /\ req[r].events = <<>>
            /\ req[r].providerCalls = 0
            /\ req[r].cacheWrites = 0
            /\ ~req[r].cacheHit
            /\ (req[r].pc = "done" /\ req[r].body # Undefined) =>
                 /\ req[r].status = 400
                 /\ req[r].json = [error |-> "Missing pageText or targetLanguage"])
  /\ [][\A r \in DOMAIN req :
          LacksField(req[r]) /\ req'[r] # req[r] /\ req[r].pc = "translate" =>
            /\ req'[r].pc \in {"done", "crashed"}
            /\ UNCHANGED <<translationCache, cacheSource>>]_vars

\* On Express 5 a request of mara without a body has left its handler with
\* status 500 and no JSON answer.
C27_BodylessCrashes ==
  \E r \in DOMAIN req :
    /\ LacksField(req[r])
    /\ req[r].body = Undefined
    /\ req[r].pc = "done"
    /\ req[r].status = 500
    /\ req[r].json = NoJson

\* On Express 4 a request of mara without a body has been answered 400.
C27_BodylessRefused ==
  \E r \in DOMAIN req :
    /\ LacksField(req[r])
    /\ req[r].body = BodylessBody(4)
    /\ req[r].status = 400

\* A request of mara without targetLanguage has been answered 400 while a
\* translation of the page was in the cache.
C27_Witness ==
  \E r \in DOMAIN req :
    /\ LacksField(req[r])
    /\ req[r].body # Undefined
    /\ req[r].body.targetLanguage = Undefined
    /\ req[r].status = 400
    /\ translationCache # EmptyMap

\* C28 (SpecPages): a credential that fails decryption is an authentication
\* failure.  A translate request whose session carries a sealed key that
\* decryptApiKey cannot open, and that is not answered from the cache, gets no
\* 200 stream: no status 200 and no event.
C28_DecryptFailureIsAuthError ==
  \A r \in DOMAIN req :
    ( /\ req[r].route = "translate"
      /\ req[r].auth # NoAuth
      /\ ~decryptApiKey(req[r].auth.apiKeyEnc, env.APP_SECRET).ok
      /\ ~req[r].cacheHit ) =>
    /\ req[r].status # 200
    /\ req[r].events = <<>>

\* The plaintext credentials of the run.
PlainCredentials == {"sk-mara", "sk-baru"}

\* text.includes(part)
Includes(text, part) ==
  \E i \in 1..(Len(text) - Len(part) + 1) : SubSeq(text, i, i + Len(part) - 1) = part

\* v is a blob of encryptApiKey: iv, ciphertext and tag, and the ciphertext
\* under a key.
IsSealed(v) == DOMAIN v = {"iv", "ct", "tag"} /\ DOMAIN v.ct = {"key", "iv", "plain"}

\* A token shows no credential: a random token is a number, and a signed one
\* carries the user and the sealed key.
TokenKeepsSecret(token) ==
  token.kind = "signed" =>
    /\ IsSealed(token.payload.k)
    /\ \A p \in PlainCredentials : ~Includes(token.payload.u, p)

\* C29 (Spec): credential secrecy.  In every reachable state the plaintext key
\* of a user is part of no response body and no stream event, of no cache key
\* or cache entry, of no session record and of no token: sessions and tokens
\* carry the sealed blob only.
C29_CredentialSecrecy ==
  /\ \A r \in DOMAIN req, p \in PlainCredentials :
       /\ \A f \in DOMAIN req[r].json \cap {"error", "username"} :
            ~Includes(req[r].json[f], p)
       /\ "token" \in DOMAIN req[r].json => TokenKeepsSecret(req[r].json.token)
       /\ \A i \in 1..Len(req[r].events) :
            \A f \in DOMAIN req[r].events[i] \cap {"content", "error"} :
              ~Includes(req[r].events[i][f], p)
       /\ \A h \in DOMAIN req[r].headers : ~Includes(req[r].headers[h], p)
  /\ \A k \in DOMAIN translationCache, p \in PlainCredentials :
       ~Includes(k, p) /\ ~Includes(translationCache[k], p)
  /\ \A t \in DOMAIN sessionKeys, p \in PlainCredentials :
       /\ IsSealed(sessionKeys[t].apiKeyEnc)
       /\ ~Includes(sessionKeys[t].username, p)
       /\ TokenKeepsSecret(t)
  /\ \A t \in DOMAIN issued : TokenKeepsSecret(t)

\* A request whose key was opened and passed to the provider has ended with
\* the error event, and a translation made with the key is in the cache.
C29_Witness ==
  \E r \in DOMAIN req :
    /\ req[r].providerCalls > 0
    /\ req[r].failed
    /\ req[r].pc = "done"
    /\ decryptApiKey(req[r].auth.apiKeyEnc, env.APP_SECRET).val \in PlainCredentials
    /\ translationCache # EmptyMap

\* The fragments of one stream, joined in the order received.
RECURSIVE JoinFragments(_)
JoinFragments(fragments) ==
  IF fragments = <<>> THEN ""
  ELSE Head(fragments) \o JoinFragments(Tail(fragments))

\* C31 (Spec): completion commits the whole accumulator.  In the step in
\* which the provider's stream of a request ends without error, the entry of
\* the request's key becomes the concatenation of all fragments the request
\* received, also when the provider produced no content at all (the entry is
\* then the empty text).
C31_CompletionCommitsAccumulator ==
  [][\A r \in DOMAIN req :
       (req[r].pc = "streaming" /\ req'[r].pc = "done" /\ ~req'[r].failed) =>
         /\ Has(translationCache', req[r].cacheKey)
         /\ translationCache'[req[r].cacheKey] = JoinFragments(req[r].fragments)]_vars

\* The same for streams that produced some content: the entry is the whole
\* accumulator.
C31_NonEmptyCompletionCommits ==
  [][\A r \in DOMAIN req :
       (req[r].pc = "streaming" /\ req'[r].pc = "done" /\ ~req'[r].failed
          /\ req[r].fragments # <<>>) =>
         /\ Has(translationCache', req[r].cacheKey)
         /\ translationCache'[req[r].cacheKey] = JoinFragments(req[r].fragments)]_vars

\* The session record and the set member a login request has created.
CreatedBy(q) ==
  IF q.token = NoJson THEN {}
  ELSE {t \in DOMAIN sessionKeys \cup sessionsSet : t = q.token}

\* C32 (SpecFaults): a login that returns no token creates no session.  For
\* every login request answered with 400, 401, 429 or 500, the store holds no
\* session record and no set member of that request.
C32_FailedLoginCreatesNoSession ==
  \A r \in DOMAIN req :
    (req[r].route = "login" /\ req[r].pc = "done"
       /\ req[r].status \in {400, 401, 429, 500}) =>
      CreatedBy(req[r]) = {}

\* The same for the answers the handler chooses itself (400, 401, 429): the
\* checks of the body, the credentials and the capacity all come before any
\* session is created.
C32_RefusedLoginCreatesNoSession ==
  \A r \in DOMAIN req :
    (req[r].route = "login" /\ req[r].pc = "done"
       /\ req[r].status \in {400, 401, 429}) =>
      CreatedBy(req[r]) = {}

\* C33 (Spec): the in-memory limiter is atomic per key.  Without Upstash, in
\* every interleaving of requests that are in flight at the same time, the
\* requests passed on for one key inside one window number at most the limit
\* of the route, and the stored count never exceeds it.
C33_MemoryLimiterAtomic ==
  ~env.redis =>
    \A route \in {"login", "translate"}, ip \in ClientIps :
      LET key == RateKey(RouteLimiter(route).name, ip)
      IN  Has(rateLog, key) =>
            /\ rateLog[key].passed <= RouteLimiter(route).limit
            /\ memRate[key].count <= RouteLimiter(route).limit

\* Two requests of one client are in flight together at the end of a window's
\* quota: one was passed on as request L of the window and has not been
\* answered yet, the other was denied as request L + 1.
C33_Witness ==
  \E r1, r2 \in DOMAIN req :
    /\ r1 # r2
    /\ req[r1].route = "translate" /\ req[r2].route = "translate"
    /\ req[r1].ip = req[r2].ip
    /\ req[r1].seq = RouteLimiter("translate").limit
    /\ ~req[r1].limited /\ req[r1].nextCalls = 1 /\ req[r1].pc \notin {"done", "idle"}
    /\ req[r2].seq = RouteLimiter("translate").limit + 1
    /\ req[r2].limited /\ req[r2].status = 429

\* C34 (SpecRate): the in-memory window counter.  After every check of the
\* in-memory limiter, allowed or denied, the stored count of the key equals
\* the number of checks made in the current window, and the request was
\* allowed if and only if that count is at most the limit.
C34_WindowCounter ==
  \A r \in DOMAIN req :
    (req[r].seq > 0 /\ ~env.redis) =>
      /\ req[r].rec.count = req[r].seq
      /\ ~req[r].limited <=> req[r].rec.count <= RouteLimiter(req[r].route).limit

\* What the counter does: the stored count is the number of checks of the
\* window up to the limit and stays at the limit afterwards; the request is
\* allowed if and only if it is one of the first limit checks of its window.
C34_CountStopsAtLimit ==
  \A r \in DOMAIN req :
    (req[r].seq > 0 /\ ~env.redis) =>
      /\ req[r].rec.count = Min(req[r].seq, RouteLimiter(req[r].route).limit)
      /\ ~req[r].limited <=> req[r].seq <= RouteLimiter(req[r].route).limit

\* A request is denied as check L + 1 of its window and leaves the stored
\* count at L.
C34_Witness ==
  \E r \in DOMAIN req :
    /\ ~env.redis
    /\ req[r].limited
    /\ req[r].seq = RouteLimiter(req[r].route).limit + 1
    /\ req[r].rec.count = RouteLimiter(req[r].route).limit

\* The rate-limit key of a request, written out: route name, colon, client.
QuotaKey(q) == RouteLimiter(q.route).name \o ":" \o q.ip

\* C35 (SpecQuota): rate limiting precedes authentication.  With the
\* in-memory limiter, a request that is past the limiter and was not denied
\* there (so every request requireAuth sees, also one without a token or
\* with a forged one) has been counted under its own key; the step in which
\* the limiter lets it through puts the count of the key routeName:client at
\* one more than before (or at 1 in a new window) and changes no other key;
\* and no step of requireAuth or of a handler changes any count.
C35_LimiterBeforeAuth ==
  /\ [](\A r \in DOMAIN req :
          (req[r].pc \notin {"idle", "limiter"} /\ ~req[r].limited) =>
            /\ req[r].nextCalls = 1
            /\ req[r].seq >= 1
            /\ req[r].rec.count >= 1)
  /\ [][\A r \in DOMAIN req :
          /\ (req[r].pc = "limiter" /\ req'[r].pc # "limiter" /\ ~req'[r].limited) =>
               LET k == QuotaKey(req[r])
               IN  /\ Has(memRate', k)
                   /\ memRate'[k].count =
                        IF Has(memRate, k) /\ memRate[k].resetAt > now
                          THEN memRate[k].count + 1 ELSE 1
                   /\ \A k2 \in DOMAIN memRate' \ {k} :
                        Has(memRate, k2) /\ memRate'[k2] = memRate[k2]
          /\ (req[r].pc \notin {"idle", "limiter"}) => memRate' = memRate]_vars

\* A translate request with a forged token is answered 401 as the second
\* request of its client (10.0.0.2, the first address of a forwarded chain);
\* the login key of the same client and the nearly used-up translate key of
\* client 10.0.0.1 stand as they were.
C35_Witness ==
  \E r \in DOMAIN req :
    /\ req[r].route = "translate"
    /\ req[r].status = 401
    /\ req[r].authorization # NoHeader
    /\ req[r].ip = "10.0.0.2"
    /\ req[r].rec.count = 2
    /\ Has(memRate, "auth-login:10.0.0.2") /\ memRate["auth-login:10.0.0.2"].count = 1
    /\ memRate["translate:10.0.0.1"].count = RouteLimiter("translate").limit - 1

\* C36 (Spec): concurrent streams do not mix.  While several requests stream
\* at once, also under one cache key, the accumulator and the forwarded
\* events of each request are made of the fragments that request received,
\* in order; a step that forwards a fragment to one request changes nothing
\* of any other request; and every step that writes the cache writes, under
\* the writer's key, the whole accumulator of the one request that ends (for
\* a request without a usable credential: its whole placeholder text).
C36_StreamsDoNotMix ==
  /\ [](\A r \in DOMAIN req :
          req[r].pc = "streaming" =>
            /\ req[r].fullTranslation = JoinFragments(req[r].fragments)
            /\ req[r].events = FragmentEvents(req[r].fragments))
  /\ [][/\ \A r, s \in DOMAIN req :
             (r # s /\ req[r].pc = "streaming" /\ req'[r].events # req[r].events) =>
               req'[s] = req[s]
        /\ (translationCache' # translationCache /\ translationCache' # EmptyMap) =>
             \E r \in DOMAIN req :
               /\ req[r].pc \in {"streaming", "demo"} /\ req'[r].pc = "done"
               /\ translationCache' =
                    MapSet(translationCache, req[r].cacheKey,
                           IF req[r].pc = "streaming"
                             THEN JoinFragments(req[r].fragments)
                             ELSE req[r].demoTranslation)]_vars

\* Two requests streamed under one cache key at once: one has ended and
\* committed 'Hallo', the other is still open and has received 'Hal' only.
C36_Witness ==
  \E r, s \in DOMAIN req :
    /\ r # s
    /\ req[r].cacheKey = req[s].cacheKey
    /\ req[r].pc = "done" /\ req[r].fragments = <<"Hal", "lo">> /\ req[r].cacheWrites = 1
    /\ req[s].pc = "streaming" /\ req[s].fragments = <<"Hal">>
    /\ translationCache[req[r].cacheKey] = "Hallo"

\* The handler of request r has its input: the limiter and requireAuth have
\* passed it on and both fields are there.
Accepted(r) ==
  /\ req[r].pc = "translate"
  /\ Truthy(req[r].body.pageText)
  /\ Truthy(req[r].body.targetLanguage)

\* The response of request r has got its terminal event and is closed.
Closed(r) ==
  /\ req[r].pc = "done"
  /\ req[r].ended
  /\ req[r].events # <<>>
  /\ req[r].events[Len(req[r].events)].isDone

\* C37 (SpecLive): every opened stream ends.  Every translate request that
\* has passed the limiter, requireAuth and the validation, whatever the
\* accepted input, eventually has its terminal event written and its response
\* closed, given that the provider's stream completes or fails.
C37_EveryStreamEnds ==
  \A r \in Reqs : Accepted(r) ~> Closed(r)

\* The same for the inputs whose two fields are strings.
C37_StringInputsEnd ==
  \A r \in Reqs :
    (Accepted(r) /\ IsString(req[r].body.pageText)
                 /\ IsString(req[r].body.targetLanguage)) ~> Closed(r)

\* The part of a cache key before the first colon.
RECURSIVE UpToColon(_, _)
UpToColon(s, i) ==
  IF i > Len(s) \/ CharAt(s, i) = ":" THEN ""
  ELSE CharAt(s, i) \o UpToColon(s, i + 1)

\* C38 (SpecIdentity): the authenticated identity is always an allowed user.
\* In every reachable state the username requireAuth has attached to a
\* request is "mara" or "baru" (trimmed, lower case), and so is the user
\* part of the cache key of every request and of every cache entry.
C38_IdentityAllowed ==
  /\ \A r \in DOMAIN req :
       /\ req[r].auth # NoAuth => req[r].auth.username \in {"mara", "baru"}
       /\ req[r].cacheKey # "" => UpToColon(req[r].cacheKey, 1) \in {"mara", "baru"}
  /\ \A k \in DOMAIN translationCache : UpToColon(k, 1) \in {"mara", "baru"}

\* A translation has been committed under the key of baru by a request whose
\* token came from a login of this run (the one that typed " Baru ").
C38_Witness ==
  \E r \in DOMAIN req :
    /\ req[r].route = "translate"
    /\ req[r].cacheWrites = 1
    /\ req[r].auth.username = "baru"
    /\ req[r].auth.token \notin {TokA, SignedA}
    /\ UpToColon(req[r].cacheKey, 1) = "baru"
    /\ Has(translationCache, req[r].cacheKey)

\* C39 (SpecIdentity): an identity with no configured password can never log
\* in.  While the configured password of baru is empty, every login answered
\* for the username baru (however typed, whatever the password, the empty
\* one too) is answered 401 'Invalid credentials', and no token is ever
\* handed out for baru.
C39_NoPasswordNoLogin ==
  env.AUTH_BARU_PASSWORD = "" =>
    /\ \A r \in DOMAIN req :
         ( /\ req[r].route = "login"
           /\ req[r].pc \notin {"idle", "limiter", "login"}
           /\ IsString(req[r].body.username)
           /\ CleanUsername(req[r].body.username) = "baru" ) =>
         /\ req[r].pc = "done"
         /\ req[r].status = 401
         /\ req[r].json = [error |-> "Invalid credentials"]
    /\ \A t \in DOMAIN issued : issued[t].username # "baru"
    /\ \A t \in DOMAIN sessionKeys : sessionKeys[t].username # "baru"

\* With no password configured for baru, a login for baru with the empty
\* password has been refused.
C39_Witness ==
  \E r \in DOMAIN req :
    /\ env.AUTH_BARU_PASSWORD = ""
    /\ req[r].route = "login"
    /\ req[r].body.username = Str("baru") /\ req[r].body.password = Str("")
    /\ req[r].status = 401

\* Call c has reported its outcome: onComplete or onError, one of them, once.
Reported(c) == client.calls[c].onComplete + client.calls[c].onError = 1

\* C40 (SpecClient): the client stream always reports an outcome.  No call of
\* translateWithStream invokes onComplete and onError more than once together;
\* every call that is not cancelled by a later call eventually invokes one of
\* them, also when the body ends without a terminal event; and the panel's
\* isTranslating is then false again.
C40_ClientReportsOutcome ==
  /\ [](\A c \in Calls : client.calls[c].onComplete + client.calls[c].onError <= 1)
  /\ \A c \in Calls :
       (client.calls[c].pc = "fetching") ~>
         (client.calls[c].aborted \/ (Reported(c) /\ ~client.isTranslating))

\* The same, but for the bodies that end without a terminal event: every call
\* that is not cancelled reports its outcome once, or its body was closed
\* before any terminal event came.
C40_ReportsUnlessClosedEarly ==
  /\ [](\A c \in Calls : client.calls[c].onComplete + client.calls[c].onError <= 1)
  /\ \A c \in Calls :
       (client.calls[c].pc = "fetching") ~>
         \/ client.calls[c].aborted
         \/ Reported(c) /\ ~client.isTranslating
         \/ client.calls[c].outcome = "silent"

\* A call has returned after its body was closed without a terminal event:
\* no callback was invoked and the panel still shows a translation running.
C40_ClosedEarly ==
  \E c \in Calls :
    /\ client.calls[c].pc = "returned"
    /\ client.calls[c].outcome = "silent"
    /\ ~client.calls[c].aborted
    /\ client.calls[c].onComplete + client.calls[c].onError = 0
    /\ client.isTranslating

\* C30: for every plaintext and non-empty secret, decryptApiKey gives back the
\* plaintext of a blob encryptApiKey made under the same secret, and gives no
\* plaintext when the iv, the ciphertext or the tag was modified or the secret
\* is another one.
C30_VaultRoundTrip ==
  \A r \in DOMAIN req :
    req[r].pc = "opened" =>
      IF req[r].apiKeyEnc = req[r].rec /\ req[r].rec.ct.key = deriveKey(env.APP_SECRET)
        THEN req[r].json = [ok |-> TRUE, val |-> req[r].body.str]
        ELSE ~req[r].json.ok
====
